---- MODULE Spec2Model ----
(***************************************************************************)
(* A state-machine model of qtrlb: the per-channel sequence compiler       *)
(* (calibration.Scan and the scans of scan2d_classes), the sequencer that  *)
(* executes a compiled program, the acquisition loop of                    *)
(* DACManager.start_sequencer, the loop of ReadoutLengthAmpScan.run over   *)
(* the readout lengths, and the functions of processing.py.                *)
(*                                                                         *)
(* Python strings that the code indexes or measures (qudit names,          *)
(* subspaces) are sequences of one-character strings; times are held in    *)
(* half nanoseconds so that round() has something to round.                *)
(***************************************************************************)
EXTENDS Integers, Sequences, FiniteSets, TLC

VARIABLES
    pc,                 \* the method the scan is about to run / where it stands
    err,                \* the exception that ended the call, "" when none
    kind,               \* the class of the scan object
    cfg,                \* cfg.variables: the parameter store
    drive_qubits, readout_resonators, qudits, main_tones,
    x_start, x_stop, x_points, x_values, x_step,
    subspace, prepulse, postpulse,
    full_prepulse_df, postpulse_df, readout_df,
    sequences,          \* qudit -> [program, acquisitions]
    stages,             \* the make_sequence stages that have been entered, in order
    hw,                 \* the instrument as the compiler's caller sees it
    n_runs, n_reps, rep, measurement, bins, armed, oplog,  \* acquisition
    xq, xpc, R, passes, r1log, head, mrk, lastop,  \* the sequencer executing a program
    outer,              \* the attributes of the scans with an outer axis
    cfg_before,         \* the parameter store as it was when the scan was made
    li,                 \* ReadoutLengthAmpScan.run: the length being run, 0 outside the loop
    measurements,       \* self.measurements: the measurement records the scan keeps
    trace,              \* ReadoutLengthAmpScan.run: what it has done, in order
    fn, arg, res        \* processing: the function called, its arguments, its result

vars == <<pc, err, kind, cfg, drive_qubits, readout_resonators, qudits, main_tones,
          x_start, x_stop, x_points, x_values, x_step, subspace, prepulse, postpulse,
          full_prepulse_df, postpulse_df, readout_df, sequences, stages, hw,
          n_runs, n_reps, rep, measurement, bins, armed, oplog,
          xq, xpc, R, passes, r1log, head, mrk, lastop,
          outer, cfg_before, li, measurements, trace, fn, arg, res>>

scanVars == <<kind, cfg, drive_qubits, readout_resonators, qudits, main_tones,
              x_start, x_stop, x_points, subspace, outer>>
sweepVars == <<x_values, x_step>>
dfVars == <<prepulse, postpulse, full_prepulse_df, postpulse_df, readout_df>>
acqVars == <<n_runs, n_reps, rep, measurement, bins, armed, oplog>>
execVars == <<xq, xpc, R, passes, r1log, head, mrk, lastop>>
runVars == <<cfg_before, li, measurements, trace>>
procVars == <<fn, arg, res>>

-----------------------------------------------------------------------------
(* Bounds of the model. *)
MaxDrive == 2       \* most drive qubits of a scan
MaxRes == 2         \* most readout resonators of a scan
MaxXPoints == 3     \* largest x_points
MaxPulses == 2      \* longest prepulse / postpulse list of one qudit
MaxReps == 2        \* largest n_reps
MaxRelax == 2       \* largest relaxation time, in half microseconds
MaxSpins == 2       \* passes of relx_loop followed after its counter has wrapped
MaxRuns == 2        \* most runs of one scan

-----------------------------------------------------------------------------
(* Python values. *)

Q0 == <<"Q", "0">>
Q1 == <<"Q", "1">>
Q2 == <<"Q", "2">>
R0 == <<"R", "0">>
R1 == <<"R", "1">>
R2 == <<"R", "2">>
AllQ == <<Q0, Q1, Q2>>
AllR == <<R0, R1, R2>>

EmptyDict == [k \in {} |-> <<>>]
Range(s) == {s[i] : i \in 1..Len(s)}

startswith(s, c) == Len(s) > 0 /\ s[1] = c

Max(S) == CHOOSE m \in S : \A n \in S : n <= m

\* round() of Python 3 on a value given in halves: ties go to the even integer.
round(h) ==
    LET q == h \div 2
    IN  IF h % 2 = 0 THEN q
        ELSE IF q % 2 = 0 THEN q ELSE q + 1

\* int(np.ceil(.)) on a value given in halves.
ceil(h) == (h + 1) \div 2

\* a & b on Python's unbounded two's-complement integers.
RECURSIVE BitAnd(_, _)
BitAnd(a, b) ==
    IF a = 0 \/ b = 0 THEN 0
    ELSE IF a = -1 THEN b
    ELSE IF b = -1 THEN a
    ELSE (a % 2) * (b % 2) + 2 * BitAnd(a \div 2, b \div 2)

\* A caller's argument: a list, a bare value (held as a one-element sequence)
\* or None.
List(v) == [t |-> "list", v |-> v]
Bare(v) == [t |-> "bare", v |-> <<v>>]
None == [t |-> "none", v |-> <<>>]

\* len() of an argument: of a list its length, of a string its characters.
len(thing) == IF thing.t = "bare" THEN Len(thing.v[1]) ELSE Len(thing.v)

make_it_list(thing) ==
    IF thing.t = "list" THEN thing.v
    ELSE IF thing.t = "none" THEN <<>>
    ELSE <<thing.v[1]>>

\* int() of a one-digit string.
int(c) == CHOOSE n \in 0..3 : <<"0", "1", "2", "3">>[n + 1] = c

X180(l) == <<"X180_01", "X180_12", "X180_23">>[l + 1]

-----------------------------------------------------------------------------
(* Instructions of a program. `stage` is the make_sequence stage that      *)
(* emitted it, `frag` the fragment header it stands under.                 *)

Ins(stage, frag, label, op, imm, reg, tgt, dur, acq) ==
    [stage |-> stage, frag |-> frag, label |-> label, op |-> op, imm |-> imm,
     reg |-> reg, tgt |-> tgt, dur |-> dur, acq |-> acq]

Plain(stage, frag, op) == Ins(stage, frag, "", op, 0, "", "", 0, -1)
Timed(stage, frag, op, dur) == Ins(stage, frag, "", op, 0, "", "", dur, -1)
Move(stage, frag, imm, reg) == Ins(stage, frag, "", "move", imm, reg, "", 0, -1)

-----------------------------------------------------------------------------
Init ==
    /\ pc = "new"
    /\ err = ""
    /\ kind = "Scan"
    /\ cfg = [k \in {} |-> 0]
    /\ drive_qubits = <<>> /\ readout_resonators = <<>> /\ qudits = <<>>
    /\ main_tones = {}
    /\ x_start = <<>> /\ x_stop = <<>> /\ x_points = 0
    /\ x_values = <<>> /\ x_step = <<>>
    /\ subspace = <<>>
    /\ prepulse = EmptyDict /\ postpulse = EmptyDict
    /\ full_prepulse_df = EmptyDict /\ postpulse_df = EmptyDict /\ readout_df = EmptyDict
    /\ sequences = EmptyDict
    /\ stages = <<>>
    /\ hw = [resets |-> 0, jsons |-> EmptyDict, loaded |-> EmptyDict, integration_length |-> 0]
    /\ n_runs = 0 /\ n_reps = 0 /\ rep = 0
    /\ measurement = EmptyDict /\ bins = EmptyDict /\ armed = {} /\ oplog = <<>>
    /\ xq = <<>> /\ xpc = 0 /\ R = EmptyDict /\ passes = 0 /\ r1log = <<>>
    /\ head = <<>> /\ mrk = 0 /\ lastop = ""
    /\ outer = [k \in {} |-> 0] /\ cfg_before = [k \in {} |-> 0]
    /\ li = 0 /\ measurements = <<>> /\ trace = <<>>
    /\ fn = "" /\ arg = <<>> /\ res = <<>>

Raise(e) == pc' = "raised" /\ err' = e

-----------------------------------------------------------------------------
(* The calls the model makes: constructor arguments and the parameter      *)
(* store they are made against.                                            *)

Kinds == {"Scan", "ReadoutFrequencyScan", "ReadoutAmplitudeScan", "ReadoutLengthAmpScan",
          "DRAGWeightScan"}

Prefix(s, n) == SubSeq(s, 1, n)

DriveArgs == {List(Prefix(AllQ, n)) : n \in 1..MaxDrive} \cup {Bare(Q0)}
ResLists == {List(Prefix(AllR, n)) : n \in 1..MaxRes}
ResArgs == ResLists \cup {Bare(R0)}

\* x_start / x_stop: a bare number, or one number per qubit.
XArgs(base) == {List([i \in 1..n |-> base + i - 1]) : n \in 1..MaxDrive} \cup {Bare(base)}

SubspaceArgs == {None} \cup {List([i \in 1..n |-> <<"0", "1">>]) : n \in 1..MaxDrive}
                       \cup {List(<<<<"1", "2">>>>)}

\* Pulse lists of at most MaxPulses gates: Q0's and Q1's differ, so that a
\* table that mixes rows up shows.
GatesOf == (Q0 :> <<"X180_01", "Y90_01", "X90_12", "Y180_12">>)
        @@ (Q1 :> <<"Y90_12", "X90_01", "Z90_12", "X180_01">>)
PulseDicts ==
    UNION {[S -> 0..MaxPulses] : S \in SUBSET {Q0, Q1}}
Dict(lens) == [t |-> "dict", v |-> [q \in DOMAIN lens |-> Prefix(GatesOf[q], lens[q])]]
DictArgs == {Dict(l) : l \in PulseDicts}
NoDict == [t |-> "none", v |-> EmptyDict]

\* Heralding delays in half nanoseconds, on and around the bounds 4 ns and
\* 65535 ns of a wait instruction.
Delays == {-131072, -131066, -10, -2, 0, 6, 7, 8, 9, 400, 131068, 131069, 131070, 131071, 140000}

DefaultCfg ==
    [classification |-> FALSE, heralding |-> FALSE, heralding_delay |-> 400,
     relaxation_time |-> 1, resonator_pulse_length |-> 80, tof |-> 24,
     qubit_pulse_length |-> 40, integration_length |-> 80,
     amp_180 |-> 5, electrical_delay |-> 0]

DefaultCall ==
    [kind |-> "Scan", drive_qubits |-> List(<<Q0>>), readout_resonators |-> List(<<R0>>),
     x_start |-> Bare(0), x_stop |-> Bare(4), x_points |-> 2, subspace |-> None,
     prepulse |-> NoDict, postpulse |-> NoDict, main_tones |-> {Q0}, cfg |-> DefaultCfg,
     y_start |-> -10, y_stop |-> 10, y_points |-> 2,
     length_start |-> 100, length_stop |-> 102, length_points |-> 2]

\* Sweep geometry and argument forms.
GeomCalls ==
    {[DefaultCall EXCEPT !.drive_qubits = dq, !.x_start = xs, !.x_stop = xe,
                         !.x_points = n, !.subspace = ss] :
        dq \in DriveArgs, xs \in XArgs(0), xe \in XArgs(4), n \in 0..MaxXPoints,
        ss \in SubspaceArgs}

\* Heralding on every kind of scan, with every delay.
HeraldCalls ==
    {[DefaultCall EXCEPT !.kind = k, !.readout_resonators = rr,
                         !.cfg = [DefaultCfg EXCEPT !.heralding = h, !.heralding_delay = d]] :
        k \in Kinds, rr \in ResArgs, h \in BOOLEAN, d \in Delays}

\* Pulse tables and stage lengths.
Lengths == {<<40, 80, 24>>, <<41, 63, 9>>}
SyncCalls ==
    {[DefaultCall EXCEPT !.kind = k, !.drive_qubits = List(Prefix(AllQ, MaxDrive)),
                         !.x_start = List([i \in 1..MaxDrive |-> 0]),
                         !.x_stop = List([i \in 1..MaxDrive |-> 4]),
                         !.readout_resonators = rr,
                         !.prepulse = pre, !.main_tones = mt,
                         !.cfg = [DefaultCfg EXCEPT !.qubit_pulse_length = l[1],
                                                    !.resonator_pulse_length = l[2],
                                                    !.tof = l[3]]] :
        k \in Kinds, rr \in ResLists, pre \in {NoDict, Dict(Q0 :> 1)},
        mt \in (SUBSET Range(Prefix(AllQ, MaxDrive))) \ {{}}, l \in Lengths}
TableCalls ==
    {[DefaultCall EXCEPT !.drive_qubits = dq, !.prepulse = pre, !.postpulse = post,
                         !.x_start = List([i \in 1..Len(dq.v) |-> 0]),
                         !.x_stop = List([i \in 1..Len(dq.v) |-> 4]),
                         !.subspace = IF ss = "" THEN None
                                      ELSE List([i \in 1..Len(dq.v) |-> <<"1", "2">>])] :
        ss \in {"", "12"},
        dq \in {List(<<Q0>>), List(<<Q0, Q1>>)}, pre \in DictArgs \cup {NoDict},
        post \in {NoDict, Dict(Q0 :> 1), Dict(Q1 :> MaxPulses)}}

\* The ranges the scans with an outer axis check: DRAG weights in tenths on
\* and around the bounds of the gain, readout lengths in ns on and around the
\* bounds 0 and 16384.
Weights == {-21, -20, -10, 0, 19, 20}
ReadoutLengths == {0, 100, 102, 16383, 16384}
RangeCalls ==
    {[DefaultCall EXCEPT !.kind = "DRAGWeightScan", !.y_start = a, !.y_stop = b] :
        a \in Weights, b \in Weights}
    \cup {[DefaultCall EXCEPT !.kind = "ReadoutLengthAmpScan", !.length_start = a,
                              !.length_stop = b] :
              a \in ReadoutLengths, b \in ReadoutLengths}

Calls == GeomCalls \cup HeraldCalls \cup SyncCalls \cup TableCalls \cup RangeCalls

-----------------------------------------------------------------------------
(* Scan.__init__, lines 41-59: the attributes. *)
ScanInit(C) ==
    /\ pc = "new"
    /\ \E c \in C :
        /\ kind' = c.kind
        /\ cfg' = c.cfg
        /\ drive_qubits' = make_it_list(c.drive_qubits)
        /\ readout_resonators' = make_it_list(c.readout_resonators)
        /\ x_start' = make_it_list(c.x_start)
        /\ x_stop' = make_it_list(c.x_stop)
        /\ x_points' = c.x_points
        /\ subspace' = IF c.subspace.t # "none" THEN c.subspace.v
                       ELSE [i \in 1..len(c.drive_qubits) |-> <<"0", "1">>]
        /\ prepulse' = c.prepulse.v
        /\ postpulse' = c.postpulse.v
        /\ main_tones' = c.main_tones \cap Range(make_it_list(c.drive_qubits))
        /\ qudits' = make_it_list(c.drive_qubits) \o make_it_list(c.readout_resonators)
        /\ outer' = [y_start |-> c.y_start, y_stop |-> c.y_stop, y_points |-> c.y_points,
                     length_start |-> c.length_start, length_stop |-> c.length_stop,
                     length_points |-> c.length_points, length_values |-> <<>>,
                     resonator_pulse_length_ns |-> round(c.cfg.resonator_pulse_length)]
        /\ cfg_before' = c.cfg
    /\ pc' = "check_attribute"
    /\ UNCHANGED <<li, measurements, trace, procVars, err, sweepVars, full_prepulse_df, postpulse_df, readout_df,
                   sequences, stages, hw, acqVars, execVars>>

\* Scan.check_attribute: the assertions, in the order the code makes them.
check_attribute_ok ==
    /\ \A i \in 1..Len(qudits) : startswith(qudits[i], "Q") \/ startswith(qudits[i], "R")
    /\ Len(x_start) = Len(drive_qubits)
    /\ Len(x_stop) = Len(drive_qubits)
    /\ Len(subspace) = Len(drive_qubits)

\* ReadoutTemplateScan.check_attribute adds one assertion.
template_check_ok ==
    kind \in {"ReadoutFrequencyScan", "ReadoutAmplitudeScan", "ReadoutLengthAmpScan"} =>
        ~cfg.classification

CheckAttribute ==
    /\ pc = "check_attribute"
    /\ IF check_attribute_ok /\ template_check_ok
       THEN pc' = "x_values" /\ err' = err
       ELSE Raise("AssertionError")
    /\ UNCHANGED <<runVars, procVars, scanVars, sweepVars, dfVars, sequences, stages, hw, acqVars, execVars>>

\* A rational number, as np.linspace and the division of line 63 produce.
Frac(n, d) == [num |-> n, den |-> d]

\* np.linspace(start, stop, num): num values from start to stop inclusive.
linspace(start, stop, num) ==
    [k \in 1..num |-> IF num = 1 THEN Frac(start, 1)
                      ELSE Frac(start * (num - 1) + (k - 1) * (stop - start), num - 1)]

\* Scan.__init__, lines 62-63. zip() stops at the shorter list.
ComputeSweep ==
    /\ pc = "x_values"
    /\ LET n == IF Len(x_start) < Len(x_stop) THEN Len(x_start) ELSE Len(x_stop)
       IN  /\ x_values' = [i \in 1..n |-> linspace(x_start[i], x_stop[i], x_points)]
           /\ IF n > 0 /\ x_points - 1 = 0
              THEN Raise("ZeroDivisionError") /\ x_step' = x_step
              ELSE /\ x_step' = [i \in 1..n |-> Frac(x_stop[i] - x_start[i], x_points - 1)]
                   /\ pc' = "generate_pulse_dataframe" /\ err' = err
    /\ UNCHANGED <<runVars, procVars, scanVars, dfVars, sequences, stages, hw, acqVars, execVars>>

-----------------------------------------------------------------------------
(* Pulse tables. A DataFrame is its cells `at` (row -> one entry per       *)
(* column), its number of columns and the `length` attribute its columns   *)
(* carry.                                                                  *)

\* dict_to_DataFrame without the loop of lines 467-468: no row is added.
add_rows_skipped(dic, rows) == dic

\* dict_to_DataFrame, lines 467-468: the rows the caller's dict lacks are added
\* to it, empty (the caller's dict is changed).
add_rows(dic, rows) ==
    [k \in DOMAIN dic \cup Range(rows) |-> IF k \in DOMAIN dic THEN dic[k] ELSE <<>>]

\* dict_to_DataFrame, lines 470-472: one row per key, as many columns as the
\* longest list, the cells a list does not reach filled with the padding.
from_dict(dic, padding) ==
    LET n == Max({0} \cup {Len(dic[k]) : k \in DOMAIN dic})
    IN  [at |-> [k \in DOMAIN dic |->
                    [i \in 1..n |-> IF i <= Len(dic[k]) THEN dic[k][i] ELSE padding]],
         n |-> n, length |-> 0]

dict_to_DataFrame(dic, rows, padding) == from_dict(add_rows(dic, rows), padding)

\* pd.concat([a, b], axis=1): the rows of both, a cell no frame has is NaN.
concat(a, b) ==
    [at |-> [k \in DOMAIN a.at \cup DOMAIN b.at |->
                (IF k \in DOMAIN a.at THEN a.at[k] ELSE [i \in 1..a.n |-> "NaN"])
             \o (IF k \in DOMAIN b.at THEN b.at[k] ELSE [i \in 1..b.n |-> "NaN"])],
     n |-> a.n + b.n, length |-> 0]

\* generate_pulse_dataframe, lines 130-134.
subspace_pulse ==
    LET n == IF Len(drive_qubits) < Len(subspace) THEN Len(drive_qubits) ELSE Len(subspace)
    IN  [q \in {drive_qubits[i] : i \in 1..n} |->
            LET i == CHOOSE j \in 1..n : drive_qubits[j] = q /\
                        \A m \in (j + 1)..n : drive_qubits[m] # q
            IN  [l \in 1..int(subspace[i][1]) |-> X180(l - 1)]]

readout_pulse == [r \in Range(readout_resonators) |-> <<"RO">>]

GeneratePulseDataframe ==
    /\ pc = "generate_pulse_dataframe"
    /\ LET readout_length_ns == round(cfg.resonator_pulse_length)
           tof_ns == round(cfg.tof)
           drive_length_ns == round(cfg.qubit_pulse_length)
           prepulse_df == dict_to_DataFrame(prepulse, qudits, "I")
           subspace_df == dict_to_DataFrame(subspace_pulse, qudits, "I")
       IN  /\ prepulse' = add_rows(prepulse, qudits)
           /\ postpulse' = add_rows(postpulse, qudits)
           /\ full_prepulse_df' =
                 [concat(subspace_df, prepulse_df) EXCEPT !.length = drive_length_ns]
           /\ postpulse_df' =
                 [dict_to_DataFrame(postpulse, qudits, "I") EXCEPT !.length = drive_length_ns]
           /\ readout_df' =
                 [dict_to_DataFrame(readout_pulse, qudits, "I")
                      EXCEPT !.length = tof_ns + readout_length_ns]
    /\ pc' = "make_sequence"
    /\ UNCHANGED <<runVars, procVars, err, scanVars, sweepVars, sequences, stages, hw, acqVars, execVars>>

-----------------------------------------------------------------------------
(* make_sequence and its stages. A stage that appends works on a copy      *)
(* `seqs` of self.sequences and hands back [seqs, err]: what it had        *)
(* appended when it raised stays appended.                                 *)

ReadoutKinds == {"ReadoutFrequencyScan", "ReadoutAmplitudeScan", "ReadoutLengthAmpScan"}
\* ReadoutLengthAmpScan is a ReadoutAmplitudeScan.
AmplitudeKinds == {"ReadoutAmplitudeScan", "ReadoutLengthAmpScan"}

Done(seqs) == [seqs |-> seqs, err |-> ""]
Failed(seqs, e) == [seqs |-> seqs, err |-> e]

\* self.sequences[q]['program'] += F(q), for every q of `qs`.
AppendTo(seqs, qs, F(_)) ==
    [q \in DOMAIN seqs |->
        IF q \in qs THEN [seqs[q] EXCEPT !.program = @ \o F(q)] ELSE seqs[q]]

tof_ns == round(cfg.tof)
qubit_pulse_length_ns == round(cfg.qubit_pulse_length)
\* self.resonator_pulse_length_ns: the attribute, which ReadoutLengthAmpScan.run
\* sets for every length.
resonator_pulse_length_ns == outer.resonator_pulse_length_ns

\* qtrlb.utils.pulses.pulse_interpreter: the fragment of one symbolic pulse,
\* which lasts `length` whatever the pulse is.
pulse_interpreter(qudit, pulse_string, length, acq_index, stage, frag) ==
    IF pulse_string = "I" THEN <<Timed(stage, frag, "wait", length)>>
    ELSE IF pulse_string = "RO" THEN
        <<Plain(stage, frag, "set_freq"), Plain(stage, frag, "set_awg_gain"),
          Timed(stage, frag, "play", tof_ns),
          Ins(stage, frag, "", "acquire", 0, "R1", "", length - tof_ns, acq_index)>>
    ELSE
        <<Plain(stage, frag, "set_freq"), Plain(stage, frag, "set_awg_gain"),
          Timed(stage, frag, "play", length)>>

RECURSIVE Flatten(_)
Flatten(ss) == IF ss = <<>> THEN <<>> ELSE Head(ss) \o Flatten(Tail(ss))

\* The loops of add_prepulse / add_postpulse / add_readout: for every column,
\* for every qudit, the fragment of column[qudit]; column[qudit] raises KeyError
\* for a qudit the table has no row of. A fragment starts with its header, a
\* comment line ("#").
add_columns(seqs, df, acq_index, stage, frag) ==
    LET missing == {i \in 1..Len(qudits) : qudits[i] \notin DOMAIN df.at}
        cell(q) == [c \in 1..df.n |->
                       <<Plain(stage, frag, "#")>>
                       \o pulse_interpreter(q, df.at[q][c], df.length, acq_index, stage, frag)]
    IN  IF df.n = 0 THEN Done(seqs)
        ELSE IF missing = {}
        THEN Done(AppendTo(seqs, Range(qudits), LAMBDA q : Flatten(cell(q))))
        ELSE LET first == CHOOSE i \in missing : \A j \in missing : i <= j
             IN  Failed(AppendTo(seqs, {qudits[i] : i \in 1..(first - 1)},
                                 LAMBDA q : cell(q)[1]),
                        "KeyError")

\* Scan.add_readout.
add_readout_base(seqs, acq_index, stage) ==
    add_columns(seqs, readout_df, acq_index, stage, "Readout")

\* ReadoutFrequencyScan.add_readout and ReadoutAmplitudeScan.add_readout: the
\* two differ in which of frequency and gain is the register R6.
add_readout_override(seqs, stage) ==
    LET length == tof_ns + resonator_pulse_length_ns
        readout(tone) ==
            IF startswith(tone, "Q") THEN <<Timed(stage, "Readout", "wait", length)>>
            ELSE <<Ins(stage, "Readout", "", "set_freq", 0,
                       IF kind = "ReadoutFrequencyScan" THEN "R6" ELSE "", "", 0, -1),
                   Ins(stage, "Readout", "", "set_awg_gain", 0,
                       IF kind \in AmplitudeKinds THEN "R6" ELSE "", "", 0, -1),
                   Timed(stage, "Readout", "play", tof_ns),
                   Ins(stage, "Readout", "", "acquire", 0, "R1", "", length - tof_ns, 0)>>
    IN  Done(AppendTo(seqs, Range(qudits), readout))

\* self.add_readout(): the method of the scan's class.
add_readout(seqs, stage) ==
    IF kind \in ReadoutKinds THEN add_readout_override(seqs, stage)
    ELSE add_readout_base(seqs, 0, stage)

\* The assertion of add_wait as Python reads it: & binds tighter than the
\* comparisons, which then chain:
\*     time_ns < (65535 & time_ns) and (65535 & time_ns) >= 4
wait_assertion(time_ns) ==
    time_ns < BitAnd(65535, time_ns) /\ BitAnd(65535, time_ns) >= 4

\* Scan.add_wait.
add_wait(seqs, time, stage) ==
    LET time_ns == round(time)
    IN  IF wait_assertion(time_ns)
        THEN Done(AppendTo(seqs, Range(qudits),
                           LAMBDA q : <<Timed(stage, "Wait", "wait", time_ns)>>))
        ELSE Failed(seqs, "AssertionError")

\* Scan.add_heralding: self.add_readout(acq_index=1), then the wait. The
\* add_readout of the readout scans takes no acq_index: the call raises.
add_heralding(seqs, stage) ==
    IF kind \in ReadoutKinds THEN Failed(seqs, "TypeError")
    ELSE LET r == add_readout_base(seqs, 1, stage)
         IN  IF r.err # "" THEN r ELSE add_wait(r.seqs, cfg.heralding_delay, stage)

\* add_main with the wait of the rest tones as long as one pulse, not two.
add_main_single_wait(seqs, stage) ==
    Done(AppendTo(seqs, Range(qudits),
                  LAMBDA tone :
                      IF tone \in main_tones
                      THEN <<Timed(stage, "Main", "play", qubit_pulse_length_ns),
                             Timed(stage, "Main", "play", qubit_pulse_length_ns)>>
                      ELSE <<Timed(stage, "Main", "wait", qubit_pulse_length_ns)>>))

\* DRAGWeightScan.add_main.
add_main(seqs, stage) ==
    LET L == qubit_pulse_length_ns
        P(op) == Plain(stage, "Main", op)
        Gain(a, b) == Ins(stage, "Main", "", "set_awg_gain", 0, a, b, 0, -1)
        Jump(op, tgt) == Ins(stage, "Main", "", op, 2, "R3", tgt, 0, -1)
        Label(l) == Ins(stage, "Main", l, "label", 0, "", "", 0, -1)
        Play == Timed(stage, "Main", "play", L)
        main == <<Jump("jge", "XpiYhalf"), Jump("jlt", "YpiXhalf"),
                  Label("XpiYhalf"),
                  P("set_freq"), Gain("R11", "R6"), Play,
                  P("set_ph_delta"), Gain("R13", "R12"), Play, P("set_ph_delta"),
                  Ins(stage, "Main", "", "jmp", 0, "", "end_main", 0, -1),
                  Label("YpiXhalf"),
                  P("set_ph_delta"), Gain("R13", "R12"), Play, P("set_ph_delta"),
                  P("set_freq"), Gain("R11", "R6"), Play,
                  Ins(stage, "Main", "", "jmp", 0, "", "end_main", 0, -1),
                  Label("end_main")>>
        rest == <<Timed(stage, "Main", "wait", L * 2)>>
    IN  Done(AppendTo(seqs, Range(qudits),
                      LAMBDA tone : IF tone \in main_tones THEN main ELSE rest))

\* The main stage of make_sequence: add_mainpulse of Scan adds nothing, the
\* scans with an add_main add it.
add_mainpulse(seqs, stage) ==
    IF kind = "DRAGWeightScan" THEN add_main(seqs, stage) ELSE Done(seqs)

\* a program that goes on from the one compiled last
init_program_extended(q) ==
    (IF q \in DOMAIN hw.jsons THEN hw.jsons[q].program ELSE <<>>)
        \o <<Timed("init_program", "Init", "wait_sync", 8)>>
        \o [i \in 1..6 |-> Move("init_program", "Init", 0,
                                <<"R0", "R1", "R2", "R3", "R4", "R5">>[i])]
\* Scan.init_program: the program starts over.
init_program(q) ==
    <<Timed("init_program", "Init", "wait_sync", 8)>>
        \o [i \in 1..6 |-> Move("init_program", "Init", 0,
                                <<"R0", "R1", "R2", "R3", "R4", "R5">>[i])]

\* Scan.add_mainloop.
mainloop(q) ==
    <<Ins("add_mainloop", "Mainloop", "main_loop", "wait_sync", 0, "", "", 8, -1),
      Plain("add_mainloop", "Mainloop", "reset_ph"),
      Ins("add_mainloop", "Mainloop", "", "set_mrk", 15, "", "", 0, -1),
      Timed("add_mainloop", "Mainloop", "upd_param", 8)>>

\* Scan.add_relaxation.
relaxation(q) ==
    LET relaxation_time_us == ceil(cfg.relaxation_time)
    IN  <<Move("add_relaxation", "Relaxation", relaxation_time_us, "R2"),
          Ins("add_relaxation", "Relaxation", "relx_loop", "wait", 0, "", "", 1000, -1),
          Ins("add_relaxation", "Relaxation", "", "loop", 0, "R2", "relx_loop", 0, -1)>>

\* Scan.add_stop.
stop(q) ==
    <<Ins("add_stop", "Stop", "", "add", 1, "R1", "", 0, -1),
      Ins("add_stop", "Stop", "", "set_mrk", 0, "", "", 0, -1),
      Timed("add_stop", "Stop", "upd_param", 8),
      Ins("add_stop", "Stop", "", "jlt", x_points, "R1", "main_loop", 0, -1),
      Plain("add_stop", "Stop", "stop")>>

\* A call made within the loop of ReadoutLengthAmpScan.run, for its pass li.
Event(op) == [i |-> li, op |-> op]

\* make_sequence, line 180: every qudit gets an empty sequence dictionary.
MakeSequence ==
    /\ pc = "make_sequence"
    /\ sequences' = [q \in Range(qudits) |->
                        [program |-> <<>>, waveforms |-> EmptyDict, acquisitions |-> EmptyDict]]
    /\ stages' = <<>>
    /\ trace' = IF li > 0 THEN Append(trace, Event("make_sequence")) ELSE trace
    /\ pc' = "set_waveforms_acquisitions"
    /\ UNCHANGED <<cfg_before, li, measurements, procVars, err, scanVars, sweepVars, dfVars, hw, acqVars, execVars>>

\* What a stage leaves alone.
StageFrame == UNCHANGED <<runVars, procVars, scanVars, sweepVars, dfVars, hw, acqVars, execVars>>

\* A stage that cannot raise.
Stage(name, next, seqs) ==
    /\ pc = name
    /\ stages' = Append(stages, name)
    /\ sequences' = seqs
    /\ pc' = next /\ err' = err
    /\ StageFrame

\* A stage that can: r is its [seqs, err].
StageOf(name, next, r) ==
    /\ pc = name
    /\ stages' = Append(stages, name)
    /\ sequences' = r.seqs
    /\ IF r.err = "" THEN pc' = next /\ err' = err ELSE Raise(r.err)
    /\ StageFrame

SetWaveformsAcquisitions ==
    Stage("set_waveforms_acquisitions", "init_program",
          [q \in DOMAIN sequences |->
              [sequences[q] EXCEPT
                 !.waveforms = [index |-> 0,
                                length |-> IF startswith(q, "Q") THEN qubit_pulse_length_ns
                                           ELSE round(cfg.resonator_pulse_length)],
                 !.acquisitions = [readout |-> [num_bins |-> x_points, index |-> 0],
                                   heralding |-> [num_bins |-> x_points, index |-> 1]]]])

InitProgram ==
    Stage("init_program", "add_initparameter",
          [q \in DOMAIN sequences |-> [sequences[q] EXCEPT !.program = init_program(q)]])

AddInitparameter == Stage("add_initparameter", "add_mainloop", sequences)

AddMainloop ==
    Stage("add_mainloop", "add_relaxation", AppendTo(sequences, Range(qudits), mainloop))

\* After the relaxation, line 188: the heralding only if it is enabled.
AddRelaxation ==
    Stage("add_relaxation", IF cfg.heralding THEN "add_heralding" ELSE "add_prepulse",
          AppendTo(sequences, Range(qudits), relaxation))

AddHeralding == StageOf("add_heralding", "add_prepulse", add_heralding(sequences, "add_heralding"))

AddPrepulse ==
    StageOf("add_prepulse", "add_mainpulse",
            add_columns(sequences, full_prepulse_df, 0, "add_prepulse", "Prepulse"))

AddMainpulse ==
    StageOf("add_mainpulse", "add_postpulse", add_mainpulse(sequences, "add_mainpulse"))

AddPostpulse ==
    StageOf("add_postpulse", "add_readout",
            add_columns(sequences, postpulse_df, 0, "add_postpulse", "Postpulse"))

AddReadout == StageOf("add_readout", "add_stop", add_readout(sequences, "add_readout"))

AddStop == Stage("add_stop", "save_sequence", AppendTo(sequences, Range(qudits), stop))

\* Scan.save_sequence: one json file per qudit.
SaveSequence ==
    /\ pc = "save_sequence"
    /\ hw' = [hw EXCEPT !.jsons = sequences]
    /\ pc' = "implement_parameters"
    /\ UNCHANGED <<runVars, procVars, err, scanVars, sweepVars, dfVars, sequences, stages, acqVars, execVars>>

\* DACManager.implement_parameters: the instrument is reset, configured and
\* given the sequence of every tone from its json file; the acquisitions a
\* sequence declares start empty.
ImplementParameters ==
    /\ pc = "implement_parameters"
    /\ hw' = [hw EXCEPT !.resets = @ + 1,
                        !.loaded = hw.jsons,
                        !.integration_length = round(cfg.integration_length)]
    /\ bins' = [r \in Range(readout_resonators) |-> [readout |-> 0, heralding |-> 0]]
    /\ trace' = IF li > 0 THEN Append(trace, Event("implement_parameters")) ELSE trace
    /\ pc' = IF li > 0 THEN "acquire_data" ELSE "subclass_init"
    /\ UNCHANGED <<cfg_before, li, measurements, procVars, err, scanVars, sweepVars, dfVars, sequences, stages, execVars,
                   n_runs, n_reps, rep, measurement, armed, oplog>>

\* The gain of the DRAG path stays in [-1, 1): amp_180 is held in tenths and
\* the weights in tenths, their product in hundredths.
gain_range_ok ==
    \A tone \in main_tones :
        /\ -100 <= cfg.amp_180 * outer.y_start /\ cfg.amp_180 * outer.y_start < 100
        /\ -100 <= cfg.amp_180 * outer.y_stop /\ cfg.amp_180 * outer.y_stop < 100

\* Readout lengths, in ns, ascend within (0, 16384).
length_range_ok ==
    16384 > outer.length_stop /\ outer.length_stop >= outer.length_start
                              /\ outer.length_start > 0

\* What the __init__ of the scan's class does after super().__init__() has
\* returned: DRAGWeightScan and ReadoutLengthAmpScan check their ranges,
\* Scan has nothing left to do.
SubclassInit ==
    /\ pc = "subclass_init"
    /\ IF \/ kind = "DRAGWeightScan" /\ ~gain_range_ok
          \/ kind = "ReadoutLengthAmpScan" /\ ~length_range_ok
       THEN Raise("AssertionError") /\ outer' = outer
       ELSE /\ pc' = "constructed" /\ err' = err
            /\ outer' = IF kind = "ReadoutLengthAmpScan"
                        THEN [outer EXCEPT !.length_values =
                                 linspace(outer.length_start, outer.length_stop,
                                          outer.length_points)]
                        ELSE outer
    /\ UNCHANGED <<runVars, procVars, kind, cfg, drive_qubits, readout_resonators, qudits,
                   main_tones, x_start, x_stop, x_points, subspace, sweepVars, dfVars,
                   sequences, stages, hw, acqVars, execVars>>

Construct(C) ==
    \/ ScanInit(C)
    \/ CheckAttribute
    \/ ComputeSweep
    \/ GeneratePulseDataframe
    \/ MakeSequence
    \/ SetWaveformsAcquisitions
    \/ InitProgram
    \/ AddInitparameter
    \/ AddMainloop
    \/ AddRelaxation
    \/ AddHeralding
    \/ AddPrepulse
    \/ AddMainpulse
    \/ AddPostpulse
    \/ AddReadout
    \/ AddStop
    \/ SaveSequence
    \/ ImplementParameters
    \/ SubclassInit

-----------------------------------------------------------------------------
(* The sequencer: what the instrument does with a loaded program.          *)

Regs == {"R0", "R1", "R2", "R3", "R4", "R5", "R6", "R11", "R12", "R13"}
\* Registers are 32 bits wide. A register is held as the two's-complement
\* reading of its 32 bits, so that 0 - 1 is the word of all ones: -1.
WordTop == 32767 * 65536 + 65535
add32(a, b) ==
    IF a > 0 /\ b > 0 /\ b > WordTop - a THEN ((a - WordTop) - 1) + ((b - WordTop) - 1)
    ELSE IF a < 0 /\ b < 0 /\ b < (-WordTop - 1) - a THEN ((a + WordTop) + 1) + ((b + WordTop) + 1)
    ELSE a + b
\* The unsigned comparison of two registers' bits.
ult(a, b) == IF (a >= 0) = (b >= 0) THEN a < b ELSE a >= 0

\* The instruction a label stands on; past the end when the program has none.
Target(prog, l) ==
    IF \E i \in 1..Len(prog) : prog[i].label = l
    THEN CHOOSE i \in 1..Len(prog) : prog[i].label = l
    ELSE Len(prog) + 1

\* One instruction of `prog` on the machine m = [at, R, t, halted]: t is the
\* real time the instructions so far have taken.
Step(prog, m) ==
    LET i == prog[m.at]
        next == [m EXCEPT !.at = @ + 1, !.t = @ + i.dur]
    IN  CASE i.op = "move" -> [next EXCEPT !.R[i.reg] = i.imm]
          [] i.op = "add"  -> [next EXCEPT !.R[i.reg] = add32(@, i.imm)]
          [] i.op = "loop" ->
                LET v == add32(m.R[i.reg], -1)
                IN  [next EXCEPT !.R[i.reg] = v,
                                 !.at = IF v # 0 THEN Target(prog, i.tgt) ELSE m.at + 1]
          [] i.op = "jlt" -> [next EXCEPT !.at = IF ult(m.R[i.reg], i.imm)
                                                 THEN Target(prog, i.tgt) ELSE m.at + 1]
          [] i.op = "jge" -> [next EXCEPT !.at = IF ~ult(m.R[i.reg], i.imm)
                                                 THEN Target(prog, i.tgt) ELSE m.at + 1]
          [] i.op = "jmp" -> [next EXCEPT !.at = Target(prog, i.tgt)]
          [] i.op = "stop" -> [m EXCEPT !.halted = TRUE]
          [] OTHER -> next

\* The machine run until it stops or leaves the program.
RECURSIVE RunOn(_, _, _)
RunOn(prog, m, fuel) ==
    IF m.halted \/ m.at > Len(prog) \/ fuel = 0 THEN m
    ELSE RunOn(prog, Step(prog, m), fuel - 1)

\* The sequencer starts on the program loaded for one tone; the registers hold
\* whatever the last program left in them.
ExecStart ==
    /\ pc = "constructed"
    /\ xpc = 0
    /\ \E q \in DOMAIN hw.loaded, v \in {0, 5} :
        /\ xq' = <<q>>
        /\ R' = [r \in Regs |-> v]
    /\ xpc' = 1
    /\ passes' = 0 /\ r1log' = <<>> /\ head' = <<>> /\ mrk' = 0 /\ lastop' = ""
    /\ UNCHANGED <<runVars, procVars, pc, err, scanVars, sweepVars, dfVars, sequences, stages, hw, acqVars>>

\* The sequencer executes one instruction. A counter that has wrapped below 0
\* is followed for MaxSpins passes of its loop and no further.
ExecStep ==
    /\ xpc >= 1
    /\ lastop # "stop"
    /\ R["R2"] >= -MaxSpins
    /\ LET prog == hw.loaded[xq[1]].program
       IN  /\ xpc <= Len(prog)
           /\ LET i == prog[xpc]
                  m == Step(prog, [at |-> xpc, R |-> R, t |-> 0, halted |-> FALSE])
                  did == [op |-> i.op, imm |-> i.imm]
              IN  /\ xpc' = m.at
                  /\ R' = m.R
                  /\ lastop' = i.op
                  /\ mrk' = IF i.op = "set_mrk" THEN i.imm ELSE mrk
                  /\ IF i.label = "main_loop"
                     THEN /\ passes' = passes + 1
                          /\ r1log' = Append(r1log, R["R1"])
                          /\ head' = <<did>>
                     ELSE /\ passes' = passes
                          /\ r1log' = r1log
                          /\ head' = IF passes > 0 /\ Len(head) < 3
                                     THEN Append(head, did) ELSE head
    /\ UNCHANGED <<runVars, procVars, xq, pc, err, scanVars, sweepVars, dfVars, sequences, stages, hw, acqVars>>

\* The programs that are executed: base scans of every x_points and of every
\* relaxation time from 0, without and
\* with heralding (a heralding delay of -5 ns: add_wait lets no delay of 0 or
\* more through).
ExecCalls ==
    {[DefaultCall EXCEPT !.x_points = n, !.readout_resonators = rr,
                         !.cfg = [DefaultCfg EXCEPT !.relaxation_time = t, !.heralding = h,
                                                    !.heralding_delay = -10]] :
        n \in 0..MaxXPoints, rr \in ResLists, t \in 0..MaxRelax, h \in BOOLEAN}

NextExec == Construct(ExecCalls) \/ ExecStart \/ ExecStep

SpecExec == Init /\ [][NextExec]_vars

-----------------------------------------------------------------------------
(* Acquisition: Scan.run, Scan.acquire_data and                            *)
(* DACManager.start_sequencer.                                             *)

\* Scan.run, lines 80-83: the attributes and the experiment directory. A scan
\* can be run again once a run is done.
Run ==
    /\ pc \in {"constructed", "done"}
    /\ n_runs < MaxRuns
    /\ kind # "ReadoutLengthAmpScan"
    /\ xpc = 0
    /\ \E n \in 0..MaxReps : n_reps' = n
    /\ pc' = "acquire_data"
    /\ UNCHANGED <<runVars, procVars, err, scanVars, sweepVars, dfVars, sequences, stages, hw, execVars,
                   n_runs, rep, measurement, bins, armed, oplog>>

NoData == <<<<>>, <<>>>>     \* a pair of lists: I first, Q second

\* Scan.acquire_data, lines 411-415: a fresh measurement dictionary.
AcquireData ==
    /\ pc = "acquire_data"
    /\ measurement' = [r \in Range(readout_resonators) |->
                          [raw_readout |-> NoData, raw_heralding |-> NoData,
                           Heterodyned_readout |-> NoData, Heterodyned_heralding |-> NoData]]
    /\ rep' = 0
    /\ trace' = IF li > 0 THEN Append(trace, Event("acquire_data")) ELSE trace
    /\ pc' = IF n_reps = 0 THEN "save_measurement" ELSE "start_sequencer"
    /\ UNCHANGED <<cfg_before, li, measurements, procVars, err, scanVars, sweepVars, dfVars, sequences, stages, hw, execVars,
                   n_runs, n_reps, bins, armed, oplog>>

\* What the instrument answers for one resonator in one repetition: the
\* acquisition completes and is fetched, the wait for it times out, or the
\* fetch fails.
Outcomes == {"ok", "timeout", "fetch_error"}

Op(name, tone, bin) == [op |-> name, tone |-> tone, bin |-> bin]

\* start_sequencer, lines 158-162: every tone is armed, then all armed
\* sequencers start. A started readout sequencer acquires into its bins, on
\* top of what they hold.
arm_and_start(st, tones) ==
    [st EXCEPT
       !.armed = Range(tones),
       !.oplog = [i \in 1..Len(tones) |-> Op("arm_sequencer", tones[i], "")]
                 \o <<Op("start_sequencer", <<>>, "")>>,
       !.bins = [r \in DOMAIN st.bins |->
                    IF r \in Range(tones)
                    THEN [readout |-> st.bins[r].readout + 1,
                          heralding |-> st.bins[r].heralding + (IF cfg.heralding THEN 1 ELSE 0)]
                    ELSE st.bins[r]]]

\* The bins of one path as get_acquisitions returns them: the repetition they
\* were acquired in and the number of acquisitions averaged into them.
Data(r, st, bin, path) ==
    [path |-> path, shot |-> rep + 1, averaged |-> st.bins[r][bin]]

\* the bins put in front of the lists
push_first(pair, st, r, bin) ==
    <<<<Data(r, st, bin, 0)>> \o pair[1], <<Data(r, st, bin, 1)>> \o pair[2]>>
\* start_sequencer, lines 188-191: the bins are appended, I and Q.
push(pair, st, r, bin) ==
    <<Append(pair[1], Data(r, st, bin, 0)), Append(pair[2], Data(r, st, bin, 1))>>

\* one resonator, its bins deleted before they are fetched
fetch_deleted(st, r, outcome) ==
    LET waited == [st EXCEPT !.oplog = Append(@, Op("get_acquisition_state", r, ""))]
        cleared == [waited EXCEPT
                      !.bins[r] = [readout |-> 0, heralding |-> 0],
                      !.oplog = @ \o <<Op("delete_acquisition_data", r, "readout"),
                                       Op("delete_acquisition_data", r, "heralding")>>]
        got == [cleared EXCEPT !.oplog = Append(@, Op("get_acquisitions", r, ""))]
    IN  IF outcome = "timeout" THEN [waited EXCEPT !.err = "TimeoutError"]
        ELSE IF outcome = "fetch_error" THEN [got EXCEPT !.err = "RuntimeError"]
        ELSE [got EXCEPT
                !.measurement[r].Heterodyned_readout = push(@, got, r, "readout"),
                !.measurement[r].Heterodyned_heralding = push(@, got, r, "heralding")]
\* start_sequencer, lines 168-191: one resonator.
fetch(st, r, outcome) ==
    LET waited == [st EXCEPT !.oplog = Append(@, Op("get_acquisition_state", r, ""))]
        got == [waited EXCEPT !.oplog = Append(@, Op("get_acquisitions", r, ""))]
        cleared == [got EXCEPT
                      !.bins[r] = [readout |-> 0, heralding |-> 0],
                      !.oplog = @ \o <<Op("delete_acquisition_data", r, "readout"),
                                       Op("delete_acquisition_data", r, "heralding")>>]
    IN  IF outcome = "timeout" THEN [waited EXCEPT !.err = "TimeoutError"]
        ELSE IF outcome = "fetch_error" THEN [got EXCEPT !.err = "RuntimeError"]
        ELSE [cleared EXCEPT
                !.measurement[r].Heterodyned_readout = push(@, got, r, "readout"),
                !.measurement[r].Heterodyned_heralding = push(@, got, r, "heralding")]

\* start_sequencer, lines 164-166: the loop over the tones, resonators only; an
\* exception ends it.
RECURSIVE fetch_all(_, _, _, _)
fetch_all(st, tones, i, outcome) ==
    IF i > Len(tones) \/ st.err # "" THEN st
    ELSE IF ~startswith(tones[i], "R") THEN fetch_all(st, tones, i + 1, outcome)
    ELSE fetch_all(fetch(st, tones[i], outcome[tones[i]]), tones, i + 1, outcome)

\* DACManager.start_sequencer(tones, measurement).
start_sequencer(tones, meas, outcome) ==
    fetch_all(arm_and_start([measurement |-> meas, bins |-> bins, armed |-> {},
                             oplog |-> <<>>, err |-> ""], tones),
              tones, 1, outcome)

\* acquire_data, lines 417-421: one pass of the loop. The tones of the call
\* are the scan's qubits and resonators.
StartSequencer ==
    /\ pc = "start_sequencer"
    /\ rep < n_reps
    /\ \E outcome \in [Range(readout_resonators) -> Outcomes] :
        LET st == start_sequencer(qudits, measurement, outcome)
        IN  /\ measurement' = st.measurement
            /\ bins' = st.bins
            /\ armed' = st.armed
            /\ oplog' = st.oplog
            /\ IF st.err # "" THEN Raise(st.err) /\ rep' = rep
               ELSE /\ rep' = rep + 1
                    /\ pc' = IF rep + 1 = n_reps THEN "save_measurement" ELSE "start_sequencer"
                    /\ err' = err
    /\ UNCHANGED <<runVars, procVars, scanVars, sweepVars, dfVars, sequences, stages, hw, execVars,
                   n_runs, n_reps>>

\* Scan.run, lines 85-91: the data is saved and processed, the run counted, the
\* measurement kept in self.measurements.
FinishRun ==
    /\ pc = "save_measurement"
    /\ li = 0
    /\ n_runs' = n_runs + 1
    /\ measurements' = Append(measurements, measurement)
    /\ pc' = "done"
    /\ UNCHANGED <<cfg_before, li, trace, procVars, err, scanVars, sweepVars, dfVars, sequences, stages, hw, execVars,
                   n_reps, rep, measurement, bins, armed, oplog>>

\* The scans that are run.
AcqCalls ==
    {[DefaultCall EXCEPT !.drive_qubits = dq, !.readout_resonators = rr,
                         !.x_start = List([i \in 1..Len(dq.v) |-> 0]),
                         !.x_stop = List([i \in 1..Len(dq.v) |-> 4]),
                         !.cfg = [DefaultCfg EXCEPT !.heralding = h, !.heralding_delay = -10]] :
        dq \in {List(Prefix(AllQ, n)) : n \in 1..MaxDrive}, rr \in ResLists, h \in BOOLEAN}
\* (a heralding delay of -5 ns: add_wait lets no delay of 0 or more through)

NextAcq == Construct(AcqCalls) \/ Run \/ AcquireData \/ StartSequencer \/ FinishRun

SpecAcq == Init /\ [][NextAcq]_vars

-----------------------------------------------------------------------------
(* ReadoutLengthAmpScan.run: the loop over the readout lengths, and        *)
(* ReadoutFrequencyScan.adjust_ED.  `trace` lists the calls the loop       *)
(* makes, each with the index of the length it is made for.                *)
MaxLengths == 3     \* largest length_points

\* a length in half nanoseconds
halves(length) == (2 * length.num) \div length.den

\* a store that keeps its integration length
same_length(store, length) == store
\* self.cfg['variables.common/integration_length'] = float(length)
set_length(store, length) == [store EXCEPT !.integration_length = halves(length)]

\* ReadoutLengthAmpScan.run, lines 512-521: the attributes, the folder and a
\* copy of the parameter files in it.
RlasRun ==
    /\ pc = "constructed"
    /\ kind = "ReadoutLengthAmpScan"
    /\ xpc = 0
    /\ \E n \in 1..MaxReps : n_reps' = n
    /\ IF outer.length_values = <<>>
       THEN pc' = "load_cfg" /\ li' = 0
       ELSE pc' = "change_length" /\ li' = 1
    /\ UNCHANGED <<cfg_before, measurements, trace, procVars, err, scanVars, sweepVars,
                   dfVars, sequences, stages, hw, execVars,
                   n_runs, rep, measurement, bins, armed, oplog>>

\* Lines 526-533: the length of this pass of the loop.
ChangeLength ==
    /\ pc = "change_length"
    /\ outer' = [outer EXCEPT
                   !.resonator_pulse_length_ns = round(halves(outer.length_values[li]))]
    /\ cfg' = set_length(cfg, outer.length_values[li])
    /\ pc' = "make_sequence"
    /\ UNCHANGED <<runVars, procVars, err, kind, drive_qubits, readout_resonators, qudits,
                   main_tones, x_start, x_stop, x_points, subspace, sweepVars, dfVars,
                   sequences, stages, hw, acqVars, execVars>>

\* Lines 541-549: the measurement is saved, processed, fitted and plotted, and
\* kept in self.measurements; the loop goes on to the next length.
Reduce ==
    /\ pc = "save_measurement"
    /\ li > 0
    /\ trace' = Append(trace, Event("process_data"))
    /\ measurements' = Append(measurements, measurement)
    /\ IF li < Len(outer.length_values)
       THEN pc' = "change_length" /\ li' = li + 1
       ELSE pc' = "load_cfg" /\ li' = 0
    /\ UNCHANGED <<cfg_before, procVars, err, scanVars, sweepVars, dfVars, sequences,
                   stages, hw, acqVars, execVars>>

\* Lines 553-555: the parameter files are loaded back, the run is counted.
LoadCfg ==
    /\ pc = "load_cfg"
    /\ cfg' = cfg_before
    /\ n_runs' = n_runs + 1
    /\ pc' = "done"
    /\ UNCHANGED <<runVars, procVars, err, kind, drive_qubits, readout_resonators, qudits,
                   main_tones, x_start, x_stop, x_points, subspace, outer, sweepVars,
                   dfVars, sequences, stages, hw, execVars,
                   n_reps, rep, measurement, bins, armed, oplog>>

\* Electrical delays, in half nanoseconds.
Delays_ED == {0, 60}

\* ReadoutFrequencyScan.adjust_ED(ED, save_cfg): saving and loading leave the
\* store with the delay it was just given.
AdjustED ==
    /\ pc = "done"
    /\ kind = "ReadoutFrequencyScan"
    /\ \E ED \in Delays_ED, save_cfg \in BOOLEAN :
        cfg' = [cfg EXCEPT !.electrical_delay = ED]
    /\ pc' = "adjusted"
    /\ UNCHANGED <<runVars, procVars, err, kind, drive_qubits, readout_resonators, qudits,
                   main_tones, x_start, x_stop, x_points, subspace, outer, sweepVars,
                   dfVars, sequences, stages, hw, acqVars, execVars>>

\* The scans with an outer axis that are run: readout lengths a whole or a
\* half number of nanoseconds apart, from a start of a few or of many
\* nanoseconds.
LengthStarts == {2, 100}
Spans(n) == IF n <= 1 THEN {0} ELSE {d \in 0..MaxLengths : (2 * d) % (n - 1) = 0}
OuterCalls ==
    UNION {{[DefaultCall EXCEPT !.kind = "ReadoutLengthAmpScan",
                                !.readout_resonators = rr,
                                !.length_start = a, !.length_stop = a + d,
                                !.length_points = n] :
               rr \in ResLists, a \in LengthStarts, d \in Spans(n)} : n \in 0..MaxLengths}
    \cup {[DefaultCall EXCEPT !.kind = "ReadoutFrequencyScan", !.readout_resonators = rr,
                               !.cfg = [DefaultCfg EXCEPT !.heralding = h]] :
            rr \in ResLists, h \in BOOLEAN}

NextOuter ==
    \/ Construct(OuterCalls)
    \/ RlasRun \/ ChangeLength \/ Reduce \/ LoadCfg
    \/ Run \/ AcquireData \/ StartSequencer \/ FinishRun
    \/ AdjustED

SpecOuter == Init /\ [][NextOuter]_vars

-----------------------------------------------------------------------------
(* The axis a program steps in a register.  y_start and y_stop are in      *)
(* tenths; add_yinit moves the start value into the register, add_yvalue   *)
(* adds the step to it, once between two points of the axis.  `passes`     *)
(* counts the steps taken.                                                 *)
MaxYPoints == 4     \* largest y_points

\* round(n/d) for d > 0: the nearest integer, of two equally near the even one
round_ratio(n, d) ==
    LET q == (2 * n + d) \div (2 * d)
    IN  IF (2 * n + d) % (2 * d) = 0 /\ q % 2 = 1 THEN q - 1 ELSE q

\* y_step, in tenths
y_step == Frac(outer.y_stop - outer.y_start, outer.y_points - 1)

\* gain_translator of a gain n/d
gain_translator(n, d) == round_ratio(n * 32768, d)

Add(stage, frag, imm, reg) == Ins(stage, frag, "", "add", imm, reg, "", 0, -1)

\* ReadoutAmplitudeScan.add_yinit, for a resonator.
amplitude_yinit ==
    LET gain == round_ratio(outer.y_start * 32768, 10)
    IN  <<Move("add_yinit", "Yinit", gain, "R6")>>

\* ReadoutAmplitudeScan.add_yvalue, for a resonator.
amplitude_yvalue ==
    LET gain_step == round_ratio(y_step.num * 32768, y_step.den * 10)
    IN  <<Add("add_yvalue", "Yvalue", gain_step, "R6")>>

\* DRAGWeightScan.add_yinit, for a main tone.
drag_yinit ==
    LET gain == gain_translator(cfg.amp_180, 10)
        gain_half == gain_translator(cfg.amp_180, 20)
        gain_drag_start == gain_translator(cfg.amp_180 * outer.y_start, 100)
        gain_drag_half_start == gain_translator(cfg.amp_180 * outer.y_start, 200)
    IN  <<Move("add_yinit", "Yinit", gain_drag_start, "R6"),
          Move("add_yinit", "Yinit", gain, "R11"),
          Move("add_yinit", "Yinit", gain_drag_half_start, "R12"),
          Move("add_yinit", "Yinit", gain_half, "R13")>>

\* DRAGWeightScan.add_yvalue, for a main tone.
drag_yvalue ==
    LET gain_drag_step == gain_translator(cfg.amp_180 * y_step.num, 100 * y_step.den)
        gain_drag_step_half == gain_translator(cfg.amp_180 * y_step.num, 200 * y_step.den)
    IN  <<Add("add_yvalue", "Yvalue", gain_drag_step, "R6"),
          Add("add_yvalue", "Yvalue", gain_drag_step_half, "R12")>>

add_yinit == IF kind = "DRAGWeightScan" THEN drag_yinit ELSE amplitude_yinit
add_yvalue == IF kind = "DRAGWeightScan" THEN drag_yvalue ELSE amplitude_yvalue

Executed(prog, regs) ==
    RunOn(prog, [at |-> 1, R |-> regs, t |-> 0, halted |-> FALSE], Len(prog)).R

\* The sequencer executes the fragment of add_yinit.
ExecYinit ==
    /\ pc = "constructed"
    /\ kind \in {"ReadoutAmplitudeScan", "DRAGWeightScan"}
    /\ R' = Executed(add_yinit, [r \in Regs |-> 0])
    /\ passes' = 0
    /\ pc' = "y_axis"
    /\ UNCHANGED <<runVars, procVars, err, scanVars, sweepVars, dfVars, sequences, stages,
                   hw, acqVars, xq, xpc, r1log, head, mrk, lastop>>

\* The sequencer executes the fragment of add_yvalue, on its way from one
\* point of the axis to the next.
ExecYvalue ==
    /\ pc = "y_axis"
    /\ passes < outer.y_points - 1
    /\ R' = Executed(add_yvalue, R)
    /\ passes' = passes + 1
    /\ UNCHANGED <<runVars, procVars, pc, err, scanVars, sweepVars, dfVars, sequences,
                   stages, hw, acqVars, xq, xpc, r1log, head, mrk, lastop>>

\* Amplitudes and DRAG weights, in tenths, of axes of 2 points and more.
Amplitudes == {0, 1, 5, 9}
AxisCalls ==
    {[DefaultCall EXCEPT !.kind = "ReadoutAmplitudeScan", !.y_start = a, !.y_stop = b,
                         !.y_points = n] :
        a \in Amplitudes, b \in Amplitudes, n \in 2..MaxYPoints}
    \cup {[DefaultCall EXCEPT !.kind = "DRAGWeightScan", !.y_start = a, !.y_stop = b,
                              !.y_points = n,
                              !.cfg = [DefaultCfg EXCEPT !.amp_180 = g, !.heralding = h]] :
            a \in Weights, b \in Weights, n \in 2..MaxYPoints, g \in {5, 9},
            h \in BOOLEAN}

NextAxis == Construct(AxisCalls) \/ ExecYinit \/ ExecYvalue

SpecAxis == Init /\ [][NextAxis]_vars

-----------------------------------------------------------------------------
(* processing.py.  A label array is a sequence of repetitions, each a      *)
(* sequence of one label per sweep point; a mask is None or a List of the  *)
(* same shape.  A mean is held as the fraction num/den it is the quotient  *)
(* of: with den = 0 nothing was averaged and the entry has no value.       *)
MaxShots == 4       \* most repetitions of a label array
MaxLevels == 3      \* largest n_levels

LabelRows == {<<0, 1, 0>>, <<0, 0, 0>>, <<1, 0, 2>>}
MaskRows == {<<FALSE, FALSE, FALSE>>, <<TRUE, FALSE, FALSE>>}
LabelArrays == UNION {[1..n -> LabelRows] : n \in 1..MaxShots}
Masks(input_data) == {None} \cup {List(m) : m \in [1..Len(input_data) -> MaskRows]}

MaskedArray(input_data, mask) ==
    [r \in 1..Len(input_data) |->
        [p \in 1..Len(input_data[r]) |->
            [data |-> input_data[r][p],
             mask |-> IF mask.t = "none" THEN FALSE ELSE mask.v[r][p]]]]

\* masked_data == level
equals(masked_data, level) ==
    [r \in 1..Len(masked_data) |->
        [p \in 1..Len(masked_data[r]) |->
            [data |-> masked_data[r][p].data = level, mask |-> masked_data[r][p].mask]]]

\* the sum and the count of the unmasked entries of column p in the first n rows
RECURSIVE total(_, _, _)
total(a, p, n) ==
    IF n = 0 THEN [num |-> 0, den |-> 0]
    ELSE LET t == total(a, p, n - 1)
             c == a[n][p]
         IN  IF c.mask THEN t
             ELSE [num |-> t.num + (IF c.data THEN 1 ELSE 0), den |-> t.den + 1]

mean_of_all(a) == [p \in 1..Len(a[1]) |-> [num |-> total(a, p, Len(a)).num, den |-> Len(a)]]
\* np.mean(a, axis=0) of a masked array
mean(a) == [p \in 1..Len(a[1]) |-> total(a, p, Len(a))]

normalize_population(input_data, n_levels, mask) ==
    LET masked_data == MaskedArray(input_data, mask)
    IN  [l \in 1..n_levels |-> mean(equals(masked_data, l - 1))]

scanState == <<scanVars, sweepVars, dfVars, sequences, stages, hw, acqVars,
               execVars, runVars>>

NormalizePopulation ==
    /\ pc = "new"
    /\ \E input_data \in LabelArrays, n_levels \in 1..MaxLevels :
        \E mask \in Masks(input_data) :
            /\ fn' = "normalize_population"
            /\ arg' = [input_data |-> input_data, n_levels |-> n_levels, mask |-> mask]
            /\ res' = normalize_population(input_data, n_levels, mask)
    /\ pc' = "processed"
    /\ err' = err
    /\ UNCHANGED scanState

(* A confusion or correction matrix is a sequence of rows, its entries in  *)
(* hundredths.  An n-dimensional array is its shape with its entries in    *)
(* row-major order, so that reshape changes the shape alone; populations   *)
(* are in quarters.  np.linalg.solve is computed exactly, by Cramer's      *)
(* rule: an entry of its result is the fraction num/den.                   *)
Matrices ==
    {<< <<100, 0>>, <<0, 100>> >>,
     << <<95, 5>>, <<5, 95>> >>,
     << <<90, 20>>, <<10, 80>> >>,
     << <<0, 100>>, <<100, 0>> >>,
     << <<90, 10, 0>>, <<10, 80, 20>>, <<0, 10, 80>> >>,
     << <<50, 50>>, <<50, 50>> >>,
     << <<100, 99>>, <<99, 98>> >>,
     << <<95, 5, 0>>, <<5, 95, 0>> >>,
     << <<95, 5>>, <<5, 90>>, <<0, 5>> >>}
Columns(n) ==
    IF n = 2 THEN {<<4, 0>>, <<1, 3>>, <<2, 2>>} ELSE {<<4, 0, 0>>, <<1, 2, 1>>}
Trailing == {<<>>, <<2>>, <<1, 2>>, <<2, 2>>}

RECURSIVE prod(_)
prod(shape) == IF shape = <<>> THEN 1 ELSE Head(shape) * prod(Tail(shape))

\* the population arrays of n levels: one column per index of the trailing axes
Populations(n) ==
    UNION {{[shape |-> <<n>> \o t,
             data |-> [i \in 1..(n * prod(t)) |->
                          cols[((i - 1) % prod(t)) + 1][((i - 1) \div prod(t)) + 1]]] :
            cols \in [1..prod(t) -> Columns(n)]} : t \in Trailing}

\* corr_matrix times actual population gives predicted population
predicted(corr_matrix, actual) ==
    LET K == prod(Tail(actual.shape))
        RECURSIVE dot(_, _, _)
        dot(row, k, j) ==
            IF j = 0 THEN 0
            ELSE dot(row, k, j - 1) + row[j] * actual.data[(j - 1) * K + k]
    IN  [shape |-> <<Len(corr_matrix)>> \o Tail(actual.shape),
         data |-> [i \in 1..(Len(corr_matrix) * K) |->
                      dot(corr_matrix[((i - 1) \div K) + 1], ((i - 1) % K) + 1,
                          Len(actual.data) \div K)]]

\* input_data.reshape(input_data.shape[0], -1), as its rows
reshape(input_data) ==
    LET K == Len(input_data.data) \div input_data.shape[1]
    IN  [i \in 1..input_data.shape[1] |-> SubSeq(input_data.data, (i - 1) * K + 1, i * K)]

RECURSIVE ravel(_)
ravel(rows) == IF rows = <<>> THEN <<>> ELSE Head(rows) \o ravel(Tail(rows))

without(s, j) == SubSeq(s, 1, j - 1) \o SubSeq(s, j + 1, Len(s))
minor(a, i, j) == [r \in 1..(Len(a) - 1) |-> without(without(a, i)[r], j)]

RECURSIVE det(_)
det(a) ==
    LET RECURSIVE expand(_)
        expand(j) ==
            IF j = 0 THEN 0
            ELSE expand(j - 1)
                 + (IF j % 2 = 1 THEN 1 ELSE -1) * a[1][j] * det(minor(a, 1, j))
    IN  IF Len(a) = 1 THEN a[1][1] ELSE expand(Len(a))

square(a) == \A r \in 1..Len(a) : Len(a[r]) = Len(a)

\* a with its column i replaced by column k of b
replaced(a, i, b, k) ==
    [r \in 1..Len(a) |-> [c \in 1..Len(a) |-> IF c = i THEN b[r][k] ELSE a[r][c]]]

solve_transposed(a, b) ==
    LET at == [r \in 1..Len(a[1]) |-> [c \in 1..Len(a) |-> a[c][r]]]
    IN  IF ~square(a) THEN [err |-> "LinAlgError", x |-> <<>>]
        ELSE IF Len(b) # Len(a) THEN [err |-> "ValueError", x |-> <<>>]
        ELSE IF det(a) = 0 THEN [err |-> "LinAlgError", x |-> <<>>]
        ELSE [err |-> "",
              x |-> [i \in 1..Len(a) |-> [k \in 1..Len(b[1]) |->
                        [num |-> det(replaced(at, i, b, k)), den |-> det(at)]]]]
\* np.linalg.solve(a, b)
solve(a, b) ==
    IF ~square(a) THEN [err |-> "LinAlgError", x |-> <<>>]
    ELSE IF Len(b) # Len(a) THEN [err |-> "ValueError", x |-> <<>>]
    ELSE IF det(a) = 0 THEN [err |-> "LinAlgError", x |-> <<>>]
    ELSE [err |-> "",
          x |-> [i \in 1..Len(a) |-> [k \in 1..Len(b[1]) |->
                    [num |-> det(replaced(a, i, b, k)), den |-> det(a)]]]]

correct_population(input_data, corr_matrix) ==
    LET flat_data == reshape(input_data)
        result == solve(corr_matrix, flat_data)
    IN  IF result.err # "" THEN [err |-> result.err, v |-> <<>>]
        ELSE [err |-> "", v |-> [shape |-> input_data.shape, data |-> ravel(result.x)]]

CorrectPopulation ==
    /\ pc = "new"
    /\ \E corr_matrix \in Matrices :
        \E actual \in Populations(Len(corr_matrix[1])) :
            LET input_data == predicted(corr_matrix, actual)
                result == correct_population(input_data, corr_matrix)
            IN  /\ fn' = "correct_population"
                /\ arg' = [input_data |-> input_data, corr_matrix |-> corr_matrix,
                           actual |-> actual]
                /\ res' = result.v
                /\ IF result.err # "" THEN Raise(result.err)
                   ELSE pc' = "processed" /\ err' = err
    /\ UNCHANGED scanState

sum(s) == IF s = <<>> THEN 0 ELSE LET RECURSIVE upto(_)
                                      upto(n) == IF n = 0 THEN 0 ELSE upto(n - 1) + s[n]
                                  IN  upto(Len(s))

get_readout_fidelity_of_column(confusion_matrix) ==
    [num |-> 100 + confusion_matrix[1][1]
                 - sum([i \in 1..(Len(confusion_matrix) - 1) |-> confusion_matrix[i + 1][1]]),
     den |-> 2]
\* the fidelity in hundredths
get_readout_fidelity(confusion_matrix) ==
    [num |-> 100 + confusion_matrix[1][1] - sum(Tail(confusion_matrix[1])), den |-> 2]

GetReadoutFidelity ==
    /\ pc = "new"
    /\ \E confusion_matrix \in Matrices :
        /\ fn' = "get_readout_fidelity"
        /\ arg' = [confusion_matrix |-> confusion_matrix]
        /\ res' = get_readout_fidelity(confusion_matrix)
    /\ pc' = "processed"
    /\ err' = err
    /\ UNCHANGED scanState

MaxBlobs == 3       \* largest number of Gaussian means
\* Means of Gaussian blobs in the IQ plane.
Means == {<<0, 0>>, <<3, 4>>, <<-3, 0>>}
MeanLists == UNION {[1..n -> Means] : n \in 1..MaxBlobs}

\* np.linalg.norm(i - j), squared: the comparison of two norms is the
\* comparison of their squares.
norm2(i, j) == (i[1] - j[1]) * (i[1] - j[1]) + (i[2] - j[2]) * (i[2] - j[2])

\* find_most_distant_points: the two loops in their order; k counts the pairs
\* gone through. point_i and point_j are bound by the first assignment only.
find_most_distant_points(input_data) ==
    LET n == Len(input_data)
        RECURSIVE loops(_, _)
        loops(k, st) ==
            IF k = n * n THEN st
            ELSE LET i == input_data[(k \div n) + 1]
                     j == input_data[(k % n) + 1]
                     distance_ij == norm2(i, j)
                 IN  loops(k + 1, IF distance_ij > st.max_distance
                                  THEN [max_distance |-> distance_ij, bound |-> TRUE,
                                        point_i |-> i, point_j |-> j]
                                  ELSE st)
        end == loops(0, [max_distance |-> 0, bound |-> FALSE,
                         point_i |-> <<>>, point_j |-> <<>>])
    IN  IF end.bound THEN [err |-> "", v |-> <<end.point_i, end.point_j>>]
        ELSE [err |-> "UnboundLocalError", v |-> <<>>]

FindMostDistantPoints ==
    /\ pc = "new"
    /\ \E input_data \in MeanLists :
        LET result == find_most_distant_points(input_data)
        IN  /\ fn' = "find_most_distant_points"
            /\ arg' = [input_data |-> input_data]
            /\ res' = result.v
            /\ IF result.err # "" THEN Raise(result.err)
               ELSE pc' = "processed" /\ err' = err
    /\ UNCHANGED scanState

\* ReadoutTemplateScan.process_data, lines 156-160: the states 0 .. x_points - 1
\* are prepared one per sweep point, every shot is classified, the populations
\* of the points are the columns of the confusion matrix. A row of GMMpredicted
\* is one repetition's labels; with 1, 2 or 4 repetitions every population is
\* a whole number of hundredths.
Repetitions == {1, 2, 4}
PredictedRows(n) ==
    IF n = 2 THEN {<<0, 1>>, <<1, 0>>, <<0, 0>>}
    ELSE {<<0, 1, 2>>, <<1, 0, 0>>, <<0, 0, 0>>}
GMMpredictions == UNION {[1..r -> PredictedRows(n)] : r \in Repetitions, n \in 2..MaxLevels}

hundredths(populations) ==
    [l \in 1..Len(populations) |->
        [p \in 1..Len(populations[l]) |->
            (100 * populations[l][p].num) \div populations[l][p].den]]

ProcessData ==
    /\ pc = "new"
    /\ \E GMMpredicted \in GMMpredictions :
        LET confusionmatrix ==
                hundredths(normalize_population(GMMpredicted, Len(GMMpredicted[1]), None))
        IN  /\ fn' = "process_data"
            /\ arg' = [GMMpredicted |-> GMMpredicted]
            /\ res' = [confusionmatrix |-> confusionmatrix,
                       ReadoutFidelity |-> get_readout_fidelity(confusionmatrix)]
    /\ pc' = "processed"
    /\ err' = err
    /\ UNCHANGED scanState

NextProc ==
    \/ NormalizePopulation \/ CorrectPopulation \/ GetReadoutFidelity
    \/ FindMostDistantPoints \/ ProcessData

SpecProc == Init /\ [][NextProc]_vars

Next == Construct(Calls)

Spec == Init /\ [][Next]_vars

-----------------------------------------------------------------------------
(* Properties. *)

\* The legal range of a wait instruction: [4, 65535) ns.
legal(time_ns) == 4 <= time_ns /\ time_ns < 65535

heralding_delay_ns == round(cfg.heralding_delay)

\* The positions of program q that a stage's fragment `frag` takes.
At(q, stage, frag) ==
    {i \in 1..Len(sequences[q].program) :
        sequences[q].program[i].stage = stage /\ sequences[q].program[i].frag = frag}
StageAt(q, stage) ==
    {i \in 1..Len(sequences[q].program) : sequences[q].program[i].stage = stage}

\* add_heralding has been called on a scan whose add_readout it can call, so
\* that it reached add_wait.
WaitCalled == "add_heralding" \in Range(stages) /\ kind \notin ReadoutKinds

\* C1: add_wait rejects every duration whose rounded value is below 4 ns or
\* not below 65535 ns, negative ones too: it raises and no channel's program
\* gets a wait instruction.
C1_IllegalWaitRejected ==
    (WaitCalled /\ ~legal(heralding_delay_ns)) =>
        /\ pc = "raised" /\ err = "AssertionError"
        /\ \A q \in DOMAIN sequences : At(q, "add_heralding", "Wait") = {}

\* C2: add_wait accepts every duration with 4 <= time_ns < 65535: the check
\* passes and every channel's program gets exactly one `wait time_ns`.
C2_LegalWaitAccepted ==
    (WaitCalled /\ legal(heralding_delay_ns)) =>
        /\ err = ""
        /\ \A q \in Range(qudits) :
            /\ Cardinality(At(q, "add_heralding", "Wait")) = 1
            /\ \A i \in At(q, "add_heralding", "Wait") :
                /\ sequences[q].program[i].op = "wait"
                /\ sequences[q].program[i].dur = heralding_delay_ns

\* The acquire instructions a stage put into the program of q.
Acquires(q, stage) ==
    {i \in StageAt(q, stage) : sequences[q].program[i].op = "acquire"}

\* C5: with heralding enabled, on every kind of scan, the heralding stage puts
\* a heralding acquisition into every readout channel's program, it uses
\* acquisition index 1 and the final readout uses index 0: no acquire of the
\* heralding fragment writes where the final readout does.
C5_HeraldingIndexDistinct ==
    \A r \in Range(readout_resonators) \cap DOMAIN sequences :
        /\ (cfg.heralding /\ "add_heralding" \in Range(stages)) =>
              /\ Acquires(r, "add_heralding") # {}
              /\ \A i \in Acquires(r, "add_heralding") :
                    sequences[r].program[i].acq = sequences[r].acquisitions.heralding.index
              /\ sequences[r].acquisitions.heralding.index = 1
        /\ \A i \in Acquires(r, "add_readout") :
              /\ sequences[r].program[i].acq = sequences[r].acquisitions.readout.index
              /\ sequences[r].program[i].acq = 0

\* make_sequence has ended, by returning or by raising.
MakeSequenceReturned == "add_stop" \in Range(stages)
MakeSequenceEnded == MakeSequenceReturned \/ (pc = "raised" /\ stages # <<>>)

Before(A, B) == \A i \in A, j \in B : i < j

\* C6: with heralding enabled and a heralding delay in [4, 65535) ns,
\* make_sequence completes and every channel's program has the heralding
\* readout, then its wait, after the relaxation and before the first pre-gate
\* fragment; with heralding disabled no program has a heralding fragment.
\* (Stated of the scans whose add_readout add_heralding can call.)
C6_HeraldingBeforePregates ==
    (MakeSequenceEnded /\ kind \notin ReadoutKinds) =>
        /\ (cfg.heralding /\ legal(heralding_delay_ns)) =>
              /\ MakeSequenceReturned
              /\ \A q \in Range(qudits) :
                    /\ At(q, "add_heralding", "Readout") # {}
                    /\ At(q, "add_heralding", "Wait") # {}
                    /\ Before(StageAt(q, "add_relaxation"), StageAt(q, "add_heralding"))
                    /\ Before(At(q, "add_heralding", "Readout"), At(q, "add_heralding", "Wait"))
                    /\ Before(StageAt(q, "add_heralding"), StageAt(q, "add_prepulse"))
        /\ ~cfg.heralding => \A q \in DOMAIN sequences : StageAt(q, "add_heralding") = {}

\* C10: a scan with x_points < 2, or without one x_start and one x_stop per
\* drive qubit, is rejected by check_attribute: once check_attribute has run
\* such a scan is in the raised state by an assertion, its x_values and
\* x_step were never computed and no program was compiled.
BadGeometry ==
    x_points < 2 \/ Len(x_start) # Len(drive_qubits) \/ Len(x_stop) # Len(drive_qubits)
C10_GeometryRejected ==
    (pc \notin {"new", "check_attribute"} /\ BadGeometry) =>
        /\ pc = "raised" /\ err = "AssertionError"
        /\ x_values = <<>> /\ x_step = <<>>
        /\ sequences = EmptyDict /\ stages = <<>>

\* start_sequencer has been called and has returned or raised.
Exited == oplog # <<>>
deleted(r, bin) == \E i \in 1..Len(oplog) : oplog[i] = Op("delete_acquisition_data", r, bin)

\* C3: whenever start_sequencer has returned or raised, the readout and the
\* heralding bins of every resonator it armed and started have been deleted
\* and hold nothing, also when the wait timed out or the fetch failed.
C3_BuffersClearedOnExit ==
    Exited =>
        \A r \in {t \in armed : startswith(t, "R")} :
            /\ deleted(r, "readout") /\ deleted(r, "heralding")
            /\ bins[r] = [readout |-> 0, heralding |-> 0]

\* C4: when the wait for the acquisition times out in the repetition after
\* `rep` successful ones, the run has failed and the I and the Q list of every
\* readout channel hold exactly `rep` entries, for the resonators handled
\* before the one that timed out too.
C4_TimeoutKeepsCompleteRepetitions ==
    (pc = "raised" /\ err = "TimeoutError") =>
        \A r \in Range(readout_resonators) : \A path \in 1..2 :
            /\ Len(measurement[r].Heterodyned_readout[path]) = rep
            /\ Len(measurement[r].Heterodyned_heralding[path]) = rep

\* C7: executed from its start, the program of a base scan runs the main_loop
\* body exactly x_points times, with R1 = 0, 1, ..., x_points - 1 at the start
\* of the passes; stop executes only with R1 = x_points; every pass begins
\* wait_sync, reset_ph, set_mrk 15; the markers are 0 at the jump and at stop.
C7_MainLoopRunsXPointsTimes ==
    /\ passes <= x_points
    /\ \A i \in 1..Len(r1log) : r1log[i] = i - 1
    /\ lastop = "stop" => passes = x_points /\ R["R1"] = x_points
    /\ Len(head) = 3 => /\ [i \in 1..3 |-> head[i].op] = <<"wait_sync", "reset_ph", "set_mrk">>
                        /\ head[3].imm = 15
    /\ lastop \in {"jlt", "stop"} => mrk = 0

\* The instructions one stage appended to the program of q, and the real time
\* they take when the registers hold v at their start.
StageProgram(q, stage) ==
    SelectSeq(sequences[q].program, LAMBDA i : i.stage = stage)
StageRun(q, stage, v) ==
    RunOn(StageProgram(q, stage),
          [at |-> 1, R |-> [r \in Regs |-> v], t |-> 0, halted |-> FALSE],
          (Len(StageProgram(q, stage)) + 1) * (MaxRelax + 2))
StageDuration(q, stage, v) == StageRun(q, stage, v).t

SyncStages ==
    {"add_relaxation", "add_heralding", "add_prepulse", "add_mainpulse", "add_postpulse",
     "add_readout"}
RegisterValues == 0..3

TablesMade == DOMAIN full_prepulse_df # {}

\* The entry a dictionary of pulses gives a channel at a position.
Given(dic, q, c) == IF q \in DOMAIN dic /\ c <= Len(dic[q]) /\ c >= 1 THEN dic[q][c] ELSE "I"
Longest(dic) == Max({0} \cup {Len(dic[k]) : k \in DOMAIN dic})
Covers(df, q) == q \in DOMAIN df.at /\ Len(df.at[q]) = df.n

\* The fragments a stage gave the program of q, counted by their headers: one
\* per column.
Slots(q, stage) ==
    Cardinality({i \in StageAt(q, stage) : sequences[q].program[i].op = "#"})

\* C9: in the prepulse (subspace, then prepulse), postpulse and readout tables
\* every channel of qudits has exactly one entry in every column: the caller's
\* pulse where the dictionary gives one at that position, 'I' otherwise; and a
\* stage gives every channel one fragment per column of its table unless it
\* raised KeyError for a channel the table lacks.
C9_PaddingInvariant ==
    TablesMade =>
        /\ \A q \in Range(qudits) :
              /\ Covers(full_prepulse_df, q) /\ Covers(postpulse_df, q) /\ Covers(readout_df, q)
              /\ postpulse_df.n = Longest(postpulse)
              /\ \A c \in 1..postpulse_df.n : postpulse_df.at[q][c] = Given(postpulse, q, c)
              /\ full_prepulse_df.n = Longest(subspace_pulse) + Longest(prepulse)
              /\ \A c \in 1..full_prepulse_df.n :
                    full_prepulse_df.at[q][c] =
                        IF c <= Longest(subspace_pulse) THEN Given(subspace_pulse, q, c)
                        ELSE Given(prepulse, q, c - Longest(subspace_pulse))
              /\ readout_df.n = 1
              /\ readout_df.at[q][1] = IF q \in Range(readout_resonators) THEN "RO" ELSE "I"
        /\ ("add_prepulse" \in Range(stages)) =>
              \/ err = "KeyError"
              \/ \A q \in Range(qudits) : Slots(q, "add_prepulse") = full_prepulse_df.n
        /\ ("add_postpulse" \in Range(stages)) =>
              \/ err = "KeyError"
              \/ \A q \in Range(qudits) : Slots(q, "add_postpulse") = postpulse_df.n

\* A compiled scan of two qubits in the subspace 12 whose prepulse gives Q0 two
\* gates and Q1 none and whose postpulse gives only Q1 gates: Q1 and the
\* resonator are padded.
C9_PaddedPrepulse ==
    /\ pc = "constructed"
    /\ Len(drive_qubits) = 2
    /\ Q1 \in DOMAIN prepulse /\ Len(prepulse[Q0]) = 2 /\ prepulse[Q1] = <<>>
    /\ full_prepulse_df.at[Q0] = <<"X180_01", "X180_01", "Y90_01">>
    /\ full_prepulse_df.at[Q1] = <<"X180_01", "I", "I">>
    /\ full_prepulse_df.at[R0] = <<"I", "I", "I">>
    /\ postpulse_df.at[Q0] = <<"I", "I">>
    /\ Slots(R0, "add_prepulse") = 3

\* C11: a check that fails while a scan is constructed (check_attribute, the
\* gain range of DRAGWeightScan, the length range of ReadoutLengthAmpScan, an
\* error of make_sequence) fails before DAC.implement_parameters is called:
\* the instrument has not been reset and holds no program of the scan.
C11_ChecksBeforeInstrument ==
    (pc = "raised" /\ n_runs = 0 /\ li = 0 /\ n_reps = 0) =>
        hw.resets = 0 /\ hw.loaded = EmptyDict

-----------------------------------------------------------------------------
(* Claims about processing.py, checked under SpecProc. *)
Called(f) == pc = "processed" /\ fn = f
Levels == 1..Len(res)
Points == 1..Len(res[1])
Shots == 1..Len(arg.input_data)
Counted(p) == {r \in Shots : arg.mask.t = "none" \/ ~arg.mask.v[r][p]}
Labelled(p, level) == {r \in Counted(p) : arg.input_data[r][p] = level}
RECURSIVE Numerators(_, _)
Numerators(p, l) == IF l = 0 THEN 0 ELSE Numerators(p, l - 1) + res[l][p].num
\* the entries of sweep point p have values that add up to 1
SumsToOne(p) ==
    /\ \A l \in Levels : res[l][p].den > 0 /\ res[l][p].den = res[1][p].den
    /\ Numerators(p, Len(res)) = res[1][p].den
\* the fraction f is n/d
Is(f, n, d) == f.den > 0 /\ f.num * d = n * f.den

\* C12: whatever the labels, n_levels and the mask, the populations that
\* normalize_population returns add up to exactly 1 over the levels at every
\* sweep point.
C12_NormalizationSumsToOne ==
    Called("normalize_population") => \A p \in Points : SumsToOne(p)

\* C13: normalize_population returns, for every level below n_levels and every
\* sweep point, the number of the counted repetitions whose label is the level
\* over the number of counted repetitions, a repetition being counted at a
\* point when its mask is not True there; the labels [[0,1,0],[0,0,0],[0,1,0],
\* [0,1,0]] with 2 levels give [[1.0,0.25,1.0],[0.0,0.75,0.0]].
C13_Example ==
    arg = [input_data |-> <<<<0, 1, 0>>, <<0, 0, 0>>, <<0, 1, 0>>, <<0, 1, 0>>>>,
           n_levels |-> 2, mask |-> None]
C13_PopulationIsFraction ==
    Called("normalize_population") =>
        /\ Len(res) = arg.n_levels
        /\ \A l \in Levels :
            /\ Len(res[l]) = Len(arg.input_data[1])
            /\ \A p \in Points :
                /\ res[l][p].num = Cardinality(Labelled(p, l - 1))
                /\ res[l][p].den = Cardinality(Counted(p))
        /\ C13_Example =>
            /\ Is(res[1][1], 1, 1) /\ Is(res[1][2], 1, 4) /\ Is(res[1][3], 1, 1)
            /\ Is(res[2][1], 0, 1) /\ Is(res[2][2], 3, 4) /\ Is(res[2][3], 0, 1)
C13_MaskedShotsCounted ==
    /\ Called("normalize_population")
    /\ arg.mask.t = "list"
    /\ \E p \in Points : Counted(p) # Shots /\ Counted(p) # {}
                         /\ \E l \in Levels : Labelled(p, l - 1) # {}

Entered(f) == pc \in {"processed", "raised"} /\ fn = f
invertible(m) == square(m) /\ det(m) # 0
absolute(n) == IF n < 0 THEN -n ELSE n
squares(m) == sum([i \in 1..(Len(m) * Len(m)) |->
                    m[((i - 1) \div Len(m)) + 1][((i - 1) % Len(m)) + 1]
                    * m[((i - 1) \div Len(m)) + 1][((i - 1) % Len(m)) + 1]])
adjugate(m) == [i \in 1..Len(m) |-> [j \in 1..Len(m) |-> det(minor(m, j, i))]]
\* the condition number of m in the Frobenius norm is 10000 or more
ill_conditioned(m) ==
    /\ invertible(m)
    /\ (squares(m) \div absolute(det(m))) * (squares(adjugate(m)) \div absolute(det(m)))
           >= 100000000

\* C14: for an invertible square matrix M and a population array actual whose
\* first axis is the level, with any trailing axes, correct_population of the
\* predicted population M @ actual and M returns actual, in the shape of its
\* input.
C14_CorrectionInvertsForwardModel ==
    (Entered("correct_population") /\ invertible(arg.corr_matrix)) =>
        /\ pc = "processed"
        /\ res.shape = arg.input_data.shape
        /\ Len(res.data) = Len(arg.actual.data)
        /\ \A i \in 1..Len(res.data) :
            /\ res.data[i].den # 0
            /\ res.data[i].num = arg.actual.data[i] * res.data[i].den
C14_TrailingAxesCorrected ==
    /\ Called("correct_population")
    /\ Len(arg.input_data.shape) = 3
    /\ arg.corr_matrix[1][2] # arg.corr_matrix[2][1]
    /\ \E i, j \in 1..Len(res.data) : arg.actual.data[i] # arg.actual.data[j]

\* C15: correct_population returns no result for a correction matrix that is
\* singular, ill-conditioned or not square: the call ends in an error.
C15_BadMatrixIsAnError ==
    (/\ Entered("correct_population")
     /\ \/ ~square(arg.corr_matrix)
        \/ det(arg.corr_matrix) = 0
        \/ ill_conditioned(arg.corr_matrix)) => pc = "raised"

\* C16: for a confusion matrix M of 2 levels or more get_readout_fidelity
\* returns (1 + M[0,0] - the sum of the rest of row 0) / 2; for a 2x2 matrix
\* whose columns add up to 1 that is one minus the average of M[1,0] and
\* M[0,1]; for [[0.95,0.05],[0.05,0.95]] it is 0.95.
C16_ReadoutFidelity ==
    Called("get_readout_fidelity") =>
        LET M == arg.confusion_matrix
            rest == {j \in 2..Len(M[1]) : TRUE}
            RECURSIVE over(_)
            over(S) == IF S = {} THEN 0
                       ELSE LET j == CHOOSE j \in S : TRUE IN M[1][j] + over(S \ {j})
        IN  /\ Is(res, 100 + M[1][1] - over(rest), 2)
            /\ (/\ Len(M) = 2 /\ square(M)
                /\ \A j \in 1..2 : M[1][j] + M[2][j] = 100)
                   => Is(res, 200 - (M[2][1] + M[1][2]), 2)
            /\ M = << <<95, 5>>, <<5, 95>> >> => Is(res, 95, 1)
C16_AsymmetricErrors ==
    /\ Called("get_readout_fidelity")
    /\ Len(arg.confusion_matrix) = 2 /\ square(arg.confusion_matrix)
    /\ \A j \in 1..2 : arg.confusion_matrix[1][j] + arg.confusion_matrix[2][j] = 100
    /\ arg.confusion_matrix[1][2] # arg.confusion_matrix[2][1]

-----------------------------------------------------------------------------
(* Claims about the sweep axis, checked under Spec. *)
Same(f, g) == f.den # 0 /\ g.den # 0 /\ f.num * g.den = g.num * f.den
Minus(f, g) == Frac(f.num * g.den - g.num * f.den, f.den * g.den)

\* C17: for every drive channel whose sweep axis was accepted, x_step is
\* (x_stop - x_start)/(x_points - 1), x_start + x_step*(x_points - 1) is x_stop,
\* and x_values has x_points entries, the first x_start, the last x_stop, each
\* two consecutive ones x_step apart.
C17_SweepAxis ==
    \A i \in 1..Len(x_step) :
        /\ Same(x_step[i], Frac(x_stop[i] - x_start[i], x_points - 1))
        /\ x_start[i] * x_step[i].den + x_step[i].num * (x_points - 1)
               = x_stop[i] * x_step[i].den
        /\ Len(x_values[i]) = x_points
        /\ Len(x_values[i]) >= 1
        /\ Same(x_values[i][1], Frac(x_start[i], 1))
        /\ Same(x_values[i][Len(x_values[i])], Frac(x_stop[i], 1))
        /\ \A k \in 1..(Len(x_values[i]) - 1) :
               Same(Minus(x_values[i][k + 1], x_values[i][k]), x_step[i])

-----------------------------------------------------------------------------
(* Claims about the scans with an outer axis, checked under SpecOuter. *)
Rlas == kind = "ReadoutLengthAmpScan"
Calls4 == <<"make_sequence", "implement_parameters", "acquire_data", "process_data">>
\* ns nanoseconds is the length, to the nearest nanosecond
Near(ns, length) == absolute(2 * ns - halves(length)) <= 1
Acquiring == li > 0 /\ pc \in {"acquire_data", "start_sequencer", "save_measurement"}

\* C18: ReadoutLengthAmpScan.run takes the lengths once each, in ascending
\* index order, and for each calls make_sequence, implement_parameters,
\* acquire_data and process_data in that order; while it acquires, the
\* integration length of the instrument and the acquisition window of the
\* loaded programs are the length of that pass; n_runs is incremented once,
\* after the last length has been processed.
C18_OuterLoopOrder ==
    Rlas =>
        /\ \A k \in 1..Len(trace) :
               trace[k] = [i |-> ((k - 1) \div 4) + 1, op |-> Calls4[((k - 1) % 4) + 1]]
        /\ Len(trace) <= 4 * Len(outer.length_values)
        /\ Acquiring =>
            /\ Near(hw.integration_length, outer.length_values[li])
            /\ \A r \in Range(readout_resonators) :
                /\ \E k \in 1..Len(hw.loaded[r].program) :
                       hw.loaded[r].program[k].op = "acquire"
                /\ \A k \in 1..Len(hw.loaded[r].program) :
                       hw.loaded[r].program[k].op = "acquire" =>
                           Near(hw.loaded[r].program[k].dur, outer.length_values[li])
        /\ n_runs <= 1
        /\ n_runs = 1 => pc = "done" /\ Len(trace) = 4 * Len(outer.length_values)
        /\ pc = "done" => n_runs = 1
C18_TwoLengthsRun ==
    /\ Rlas /\ pc = "done" /\ n_runs = 1
    /\ Len(outer.length_values) >= 2
    /\ halves(outer.length_values[1]) # halves(outer.length_values[2])
    /\ Len(trace) = 4 * Len(outer.length_values)

\* C19: while ReadoutLengthAmpScan.run is at a later length, the scan keeps
\* the measurement record of no earlier length.
C19_OneRecordResident == (Rlas /\ li > 1) => measurements = <<>>

\* C20: wherever a scan's construction, run or adjust_ED has ended, in a
\* result or in an error, the parameter store is as it was before.
C20_StoreUnchanged == pc \in {"done", "adjusted", "raised"} => cfg = cfg_before

-----------------------------------------------------------------------------
(* Claims about the measurement record, checked under SpecAcq. *)
Lists(r) == {measurement[r].Heterodyned_readout[1], measurement[r].Heterodyned_readout[2],
             measurement[r].Heterodyned_heralding[1], measurement[r].Heterodyned_heralding[2]}
InRun == pc \in {"start_sequencer", "save_measurement", "done"}

\* C21: acquire_data starts from an empty record; after `rep` successful
\* start_sequencer calls the I and the Q list of the readout and of the
\* heralding bins of every readout channel hold `rep` entries, the i-th
\* fetched in the i-th repetition; after a complete run they hold n_reps
\* entries, whatever the runs before.
C21_OneEntryPerRepetition ==
    InRun =>
        \A r \in Range(readout_resonators) : \A l \in Lists(r) :
            /\ Len(l) = rep
            /\ \A i \in 1..Len(l) : l[i].shot = i
            /\ pc \in {"save_measurement", "done"} => Len(l) = n_reps
C21_SecondRunDone ==
    /\ pc = "done" /\ n_runs = 2 /\ n_reps = 2 /\ rep = 2
    /\ Len(measurements) = 2
    /\ measurements[1][readout_resonators[1]].Heterodyned_readout[1] # <<>>

At_op(name, tone, bin) == {i \in 1..Len(oplog) : oplog[i] = Op(name, tone, bin)}
Once(S) == Cardinality(S) = 1
First(S) == CHOOSE i \in S : \A j \in S : i <= j
\* the resonator's bins were fetched and deleted in this call
Handled(r) == At_op("delete_acquisition_data", r, "heralding") # {}

\* C22: in every call of start_sequencer all the tones are armed, in order,
\* before the one global start; a readout tone is awaited before its bins are
\* fetched, the bins are fetched before they are deleted, and the record gets
\* an entry only for bins fetched in this call; a drive tone is only armed.
C22_InstrumentOrder ==
    Exited =>
        /\ Len(oplog) > Len(qudits)
        /\ \A i \in 1..Len(qudits) : oplog[i] = Op("arm_sequencer", qudits[i], "")
        /\ At_op("start_sequencer", <<>>, "") = {Len(qudits) + 1}
        /\ \A i \in (Len(qudits) + 2)..Len(oplog) :
               /\ oplog[i].op \in {"get_acquisition_state", "get_acquisitions",
                                    "delete_acquisition_data"}
               /\ oplog[i].tone \in Range(readout_resonators)
        /\ \A r \in Range(readout_resonators) :
            LET waited == At_op("get_acquisition_state", r, "")
                got == At_op("get_acquisitions", r, "")
                del == At_op("delete_acquisition_data", r, "readout")
                      \cup At_op("delete_acquisition_data", r, "heralding")
            IN  /\ Cardinality(waited) <= 1 /\ Cardinality(got) <= 1
                /\ got # {} => Once(waited) /\ First(waited) < First(got)
                /\ del # {} => Once(got) /\ Cardinality(del) = 2 /\ First(got) < First(del)
                /\ \A l \in Lists(r) :
                       Len(l) = rep + (IF pc = "raised" /\ Handled(r) THEN 1 ELSE 0)
C22_TwoResonatorsFetched ==
    /\ Exited /\ pc # "raised" /\ rep >= 1
    /\ Len(readout_resonators) >= 2 /\ Len(drive_qubits) >= 1
    /\ \A r \in Range(readout_resonators) : Handled(r)

-----------------------------------------------------------------------------
(* Claims about the stepped register, checked under SpecAxis. *)
OnAxis(k) == pc = "y_axis" /\ kind = k
\* the fixed-point conversion of the axis value y_start + passes * y_step
Converted ==
    round_ratio((outer.y_start * y_step.den + passes * y_step.num) * 32768, 10 * y_step.den)

\* C23: add_yinit sets R6 to the fixed-point conversion of y_start and
\* add_yvalue adds the conversion of y_step once per step, so that at every
\* point of the axis R6 is the fixed-point conversion of the point's value
\* y_start + k * y_step, and of y_stop at the last point.
C23_RegisterFollowsAxis ==
    OnAxis("ReadoutAmplitudeScan") =>
        /\ R["R6"] = Converted
        /\ passes = outer.y_points - 1 => R["R6"] = round_ratio(outer.y_stop * 32768, 10)

\* C24: for a DRAGWeightScan that its range assertions accept, R6, R11, R12
\* and R13 are within [-32768, 32767] at every point of the axis, and R12 is
\* half of R6 to within one unit.
C24_GainsInRange ==
    OnAxis("DRAGWeightScan") =>
        /\ \A r \in {"R6", "R11", "R12", "R13"} : -32768 <= R[r] /\ R[r] <= 32767
        /\ -2 <= 2 * R["R12"] - R["R6"] /\ 2 * R["R12"] - R["R6"] <= 2

-----------------------------------------------------------------------------
(* C25 *)

\* The instruction the sequencer stands on.
Standing ==
    IF xpc >= 1 /\ xq # <<>> /\ xpc <= Len(hw.loaded[xq[1]].program)
    THEN hw.loaded[xq[1]].program[xpc]
    ELSE Plain("", "", "")

\* C25: with n = ceil(relaxation_time * 1e6), relx_loop executes 'wait 1000'
\* exactly n times and then falls through, for every relaxation time from 0:
\* whenever the sequencer stands on the wait, its duration is within [4, 65535)
\* and the counter R2 holds the number of waits that remain, between 1 and n;
\* the loop is left with R2 = 0; R2 never wraps below 0 inside the fragment.
C25_RelaxationLoopCount ==
    /\ Standing.label = "relx_loop" =>
          /\ Standing.dur \in 4..65534
          /\ R["R2"] \in 1..ceil(cfg.relaxation_time)
    /\ (lastop = "loop" /\ Standing.label # "relx_loop") => R["R2"] = 0
    /\ Standing.frag = "Relaxation" /\ Standing.op = "loop" => R["R2"] >= 0
-----------------------------------------------------------------------------
(* C26 *)

\* The instructions of the readout stage that take a duration operand.
ReadoutDurations(q) ==
    {sequences[q].program[i].dur : i \in
        {j \in 1..Len(sequences[q].program) :
            /\ sequences[q].program[j].stage = "add_readout"
            /\ sequences[q].program[j].op \in {"wait", "play", "acquire"}}}

\* C26: for every ReadoutLengthAmpScan its length assertion accepts, at every
\* length of the outer loop every duration operand of the readout stage (the
\* wait of the drive tones, the play and the acquire of the readout tones)
\* lies within [4, 65535).
C26_ReadoutDurationsLegal ==
    (kind = "ReadoutLengthAmpScan" /\ li >= 1 /\ "add_readout" \in Range(stages)) =>
        \A q \in DOMAIN sequences : \A d \in ReadoutDurations(q) : d \in 4..65534
-----------------------------------------------------------------------------
(* C27 *)

\* The calls that leave subspace out.
DefaultCalls == {c \in Calls : c.subspace = None}

NextDefault == Construct(DefaultCalls)

SpecDefault == Init /\ [][NextDefault]_vars

\* C27: when subspace is omitted, the default has exactly one '01' entry per
\* drive qubit, whether drive_qubits was given as a single string or as a
\* list: the subspace assertion of check_attribute holds and the subspace
\* contributes no preparation pulse.
C27_DefaultSubspace ==
    pc # "new" =>
        /\ subspace = [i \in 1..Len(drive_qubits) |-> <<"0", "1">>]
        /\ Len(subspace) = Len(drive_qubits)
        /\ \A q \in DOMAIN subspace_pulse : subspace_pulse[q] = <<>>
-----------------------------------------------------------------------------
(* C28 *)

\* C28: for every non-empty list of points, a single point and identical
\* points included, find_most_distant_points returns two points of the list
\* whose distance is the largest distance between any two of them (0 when all
\* coincide).
C28_MostDistantPair ==
    fn = "find_most_distant_points" =>
        /\ pc = "processed"
        /\ Len(res) = 2
        /\ {res[1], res[2]} \subseteq Range(arg.input_data)
        /\ \A i, j \in Range(arg.input_data) : norm2(i, j) <= norm2(res[1], res[2])
-----------------------------------------------------------------------------
(* C29 *)

\* A confusion matrix as process_data produces them: square, no entry
\* negative, every column summing to 1.
Stochastic(m) ==
    /\ \A l \in 1..Len(m) : Len(m[l]) = Len(m)
    /\ \A l \in 1..Len(m) : \A p \in 1..Len(m) : m[l][p] >= 0
    /\ \A p \in 1..Len(m) : sum([l \in 1..Len(m) |-> m[l][p]]) = 100

\* C29: the confusion matrix process_data computes is square, non-negative
\* and has columns summing to 1, and for any number of levels from 2 its
\* readout fidelity lies within [0, 1].
C29_FidelityInUnitInterval ==
    fn = "process_data" =>
        /\ Stochastic(res.confusionmatrix)
        /\ 0 <= res.ReadoutFidelity.num
        /\ res.ReadoutFidelity.num <= 100 * res.ReadoutFidelity.den
-----------------------------------------------------------------------------
(* C30 *)

\* Where the fragments of one stage begin in the program of q.
Fragments(q, stage) ==
    {i \in StageAt(q, stage) : i = 1 \/ sequences[q].program[i - 1].stage # stage}

\* make_sequence has returned in pass li of the loop of ReadoutLengthAmpScan.run
\* and its sequences are not saved yet: hw.jsons holds those of the compilation
\* before.
Recompiled == kind = "ReadoutLengthAmpScan" /\ li >= 1 /\ pc = "save_sequence"

\* The configuration is the one of the pass before.
SameConfiguration ==
    /\ li >= 2
    /\ outer.length_values[li] = outer.length_values[li - 1]

\* C30: recompilation replaces: a make_sequence under the configuration of the
\* make_sequence before it yields the same program, waveform table and
\* acquisition table for every tone, and the program of every pass of the loop
\* of ReadoutLengthAmpScan.run has exactly one init, one main loop, one readout
\* and one stop fragment.
C30_RecompilationReplaces ==
    Recompiled =>
        \A q \in DOMAIN sequences :
            /\ SameConfiguration => sequences[q] = hw.jsons[q]
            /\ \A stage \in {"init_program", "add_mainloop", "add_readout", "add_stop"} :
                  Cardinality(Fragments(q, stage)) = 1
            /\ Cardinality({i \in 1..Len(sequences[q].program) :
                               sequences[q].program[i].label = "main_loop"}) = 1
            /\ Cardinality({i \in 1..Len(sequences[q].program) :
                               sequences[q].program[i].op = "stop"}) = 1

C30_SameLengthRecompiled == Recompiled /\ SameConfiguration
=============================================================================
